---------------------------- MODULE Spec2Model ----------------------------
(***************************************************************************)
(* A state-machine model of happypanda: the queued downloader and its item  *)
(* life cycle (happypanda/pewnet.py), the metadata clients' shared request  *)
(* lock and cooldown (pewnet.py, CommenHen), the auto-metadata guard        *)
(* (version/database/fetch.py), the plugin registry (version/hplugins.py)   *)
(* and the database bootstrap (version/database/db.py, known through its    *)
(* test tests/database/test_db.py).                                         *)
(*                                                                         *)
(* Each subsystem has its own specification (SpecDL, SpecLock, SpecFetch,   *)
(* SpecPlugins, SpecDB); the variables of the other subsystems stay at      *)
(* their initial values under it.                                           *)
(***************************************************************************)
EXTENDS Integers, Sequences, FiniteSets, TLC

\* ------------------------------------------------------------------ bounds
\* DownloaderItem objects that exist
NumItems == 2
\* worker threads started by start_manager(max_tasks)
NumWorkers == 2
\* chunks a response body can hold
MaxChunks == 1
\* sub-urls of a multi-url item
NumUrls == 2

Items == 1..NumItems
Workers == 1..NumWorkers
NoItem == 0

\* =================================================================== STATE
\* downloader (happypanda/pewnet.py, DownloaderItem and Downloader)
VARIABLES
    started,        \* start_manager has run
    inc_queue,      \* Downloader._inc_queue (FIFO of items)
    queued,         \* items add_to_queue has been called with
    isMulti,        \* item.download_url is a list
    current_state,  \* item.current_state
    file,           \* item.file
    current_size,   \* item.current_size (in chunks)
    total_size,     \* item.total_size
    active_items,   \* Downloader.active_items
    partExists,     \* the item's <name>.part working file is on disk
    file_rdy,       \* times item.file_rdy was emitted
    item_finished,  \* times Downloader.item_finished was emitted for the item
    wpc,            \* each worker's position in _downloading
    witem,          \* the item a worker holds
    interrupt,      \* the worker's interrupt / interrupt_state local
    remaining,      \* chunks the worker's current response still yields
    urlIdx,         \* multi-url: index of the sub-url being processed
    knownSum,       \* multi-url: sum(total_known_filesize) of the worker
    midCancel,      \* history: cancel() hit the item while its worker was transferring
    seen            \* history: multi-url: the local file size and the content
                    \* length the worker compared for its current sub-url

dlVars == <<started, inc_queue, queued, isMulti, current_state, file, current_size,
            total_size, active_items, partExists, file_rdy, item_finished,
            wpc, witem, interrupt, remaining, urlIdx, knownSum, midCancel, seen>>


\* metadata clients (happypanda/pewnet.py, CommenHen and its subclasses)
VARIABLES
    henClass,       \* the class of each client instance
    LOCK,           \* CommenHen.LOCK is locked
    holders,        \* history: clients whose acquire() returned and that have not released
    clsLAST_USED,   \* CommenHen.LAST_USED, the class attribute
    instLAST_USED,  \* LAST_USED in each instance's __dict__ (Unset: none)
    now,            \* time.time()
    cpc,            \* each client's position
    hashesLeft,     \* search: hashes still to look up; ChaikaHen: urls still to get
    cres,           \* how the client's last call ended
    relTime,        \* history: time of the latest end_lock (Unset: none yet)
    relBy,          \* history: the client that made it (0: none yet)
    seenLU,         \* history: the LAST_USED value the client's gate last read
    passedAt        \* history: when the client's begin_lock last returned

lockVars == <<henClass, LOCK, holders, clsLAST_USED, instLAST_USED, now, cpc, hashesLeft, cres,
              relTime, relBy, seenLU, passedAt>>

\* auto metadata fetcher (version/database/fetch.py, Fetch.auto_web_metadata)
VARIABLES
    GLOBAL_EHEN_LOCK,   \* gui_constants.GLOBAL_EHEN_LOCK, the process-wide guard
    use_ehen_api,       \* gui_constants.FETCH_EHEN_API
    first_hit,          \* gui_constants.ALWAYS_CHOOSE_FIRST_HIT
    fpc,                \* each calling thread's position in auto_web_metadata
    gx,                 \* index of the gallery the loop is at
    error_galleries,    \* the call's local error_galleries
    pre_url,            \* the call's local checked_pre_url_galleries
    applied,            \* galleries the call has applied metadata to
    temp_url,           \* gallery.temp_url of the call's galleries
    finished_sig,       \* values the call has emitted on FINISHED, in order
    progress,           \* the call's last AUTO_METADATA_PROGRESS message
    picker_queue,       \* Fetch.GALLERY_PICKER_QUEUE (class attribute, shared)
    picker_req,         \* GALLERY_PICKER emissions the UI has not answered yet
    outcome             \* how the thread's last call ended

fetchVars == <<GLOBAL_EHEN_LOCK, use_ehen_api, first_hit, fpc, gx, error_galleries,
               pre_url, applied, temp_url, finished_sig, progress, picker_queue,
               picker_req, outcome>>

\* plugin framework (version/hplugins.py)
VARIABLES
    classes,        \* the plugin classes registered so far, in order: their ID and NAME
    plugins,        \* Plugins._plugins: NAME -> instance (the index of its class)
    hooks,          \* Plugins.hooks: stored ID -> (hook name -> hook object)
    connections,    \* Plugins._connections
    nHooks,         \* hook objects created so far
    hookClass,      \* the Hook class each hook object is an instance of
    classHandlers,  \* Hook._handlers, a class attribute: one set per Hook class
    attachedTo,     \* (history) handlers addHandler was called with, per hook object
    lastOp,         \* (history) the last operation: a class statement with what it
                    \* declared and whether it raised, or a hook invocation with
                    \* its arguments and the calls each handler received
    passEnded       \* a wiring pass has ended and nothing changed since

plugVars == <<classes, plugins, hooks, connections, nHooks, hookClass, classHandlers,
              attachedTo, lastOp, passEnded>>

\* database bootstrap (version/database/db.py, init_db)
VARIABLES
    files,          \* the file at each path: whether it exists, its version table
                    \* rows, whether the schema script has been run on it
    dirs,           \* whether the database directory tree exists
    dpc,            \* position inside init_db
    dpath,          \* the path argument of the current call
    dstep,          \* index of the next step of the new-database branch
    isfile_ret,     \* what os.path.isfile returned in this call
    conn,           \* the connection the call opened
    dcalls,         \* (history) the calls this init_db has made, in order
    result          \* what the call returned

dbVars == <<files, dirs, dpc, dpath, dstep, isfile_ret, conn, dcalls, result>>

\* database backup (version/utils.py, backup_database)
VARIABLES
    bisdir,         \* whether the backup directory exists
    bdir,           \* the backup directory: file name -> content
    bdir0,          \* (history) the backup directory when the current call began
    bpc,            \* position inside backup_database
    current_try,    \* the loop counter
    copied,         \* (history) names the current call copied the database to
    bresult,        \* what the call returned
    nBackups        \* calls made so far; a copy's content is the number of its call

bkVars == <<bisdir, bdir, bdir0, bpc, current_try, copied, bresult, nBackups>>

\* metadata application (happypanda/pewnet.py, EHen.apply_metadata)
VARIABLES
    tagdicts,       \* the dict objects: namespace -> list object (NoList: no such key)
    taglists,       \* the list objects: their tags, in order
    gtags,          \* the dict object gallery.tags refers to
    lastApply       \* (history) the record and mode of the last application, and
                    \* the record's tags as they were when it began

tagVars == <<tagdicts, taglists, gtags, lastApply>>

\* metadata client queue (happypanda/pewnet.py, CommenHen.QUEUE)
VARIABLES
    QUEUE,          \* CommenHen.QUEUE: the class-level list every client appends to
    arrivals,       \* (history) URLs queued so far; a URL is named by its arrival number
    qcall           \* (history) the last add_to_queue call: the client, the queue
                    \* process_queue found, what get_metadata was given, the return

queueVars == <<QUEUE, arrivals, qcall>>

\* site orchestrators (happypanda/pewnet.py DLManager subclasses, version/asm_manager.py)
VARIABLES
    dl_queue,       \* what from_gallery_url calls have put on the download queue
    ncalls,         \* (history) from_gallery_url calls made
    mcall           \* (history) the last call: the manager, what it put on the
                    \* queue, whether the download URL was set, the return

mgrVars == <<dl_queue, ncalls, mcall>>

\* local search (version/database/fetch.py, Fetch.local)
VARIABLES
    series,         \* what self.series_path yields (kinds of its entries)
    lpc,            \* the position of local()
    gallery_l,      \* entries of gallery_l the loop has not reached
    data,           \* self.data
    data_count,     \* what DATA_COUNT was emitted with
    lprogress,      \* the last PROGRESS emitted
    local_finished  \* the FINISHED emissions of local(), in order

localVars == <<series, lpc, gallery_l, data, data_count, lprogress, local_finished>>

\* gallery dialog (version/gallerydialog.py, GalleryDialog)
VARIABLES
    gmode,          \* the dialog was opened for a new gallery or to edit one
    title_text,     \* title_edit.text()
    path_text,      \* path_lbl.text()
    highlighted,    \* the fields check() has marked red
    dialog,         \* the window: open, hidden or closed
    library,        \* galleries add_gallery has put into the library
    replaced,       \* replace_gallery was called with the edited gallery
    thread_running, \* _fetch_thread.isRunning()
    fetch_state,    \* auto_web_metadata in the fetch thread: none, running, returned
    close_connected,\* _fetch_thread.finished is connected to self.close
    pgr_widget,     \* the progress bar of the fetch: hidden, shown, or shown red
    closing,        \* (history) close() or delayed_close() was called
    gpress          \* (history) the last user action and what check() gave

dialogVars == <<gmode, title_text, path_text, highlighted, dialog, library, replaced, thread_running, fetch_state, close_connected, pgr_widget, closing, gpress>>

vars == <<dlVars, lockVars, fetchVars, plugVars, dbVars, bkVars, tagVars, queueVars, mgrVars, localVars, dialogVars>>

\* what an action of one subsystem leaves alone: the other subsystems
dlRest == <<lockVars, fetchVars, plugVars, dbVars, bkVars, tagVars, queueVars, mgrVars, localVars, dialogVars>>
\* what a downloader step leaves alone unless it says otherwise
dlOthers == <<dlRest, seen>>
lockOthers == <<dlVars, fetchVars, plugVars, dbVars, bkVars, tagVars, queueVars, mgrVars, localVars, dialogVars>>
fetchOthers == <<dlVars, lockVars, plugVars, dbVars, bkVars, tagVars, queueVars, mgrVars, localVars, dialogVars>>
plugOthers == <<dlVars, lockVars, fetchVars, dbVars, bkVars, tagVars, queueVars, mgrVars, localVars, dialogVars>>
dbOthers == <<dlVars, lockVars, fetchVars, plugVars, bkVars, tagVars, queueVars, mgrVars, localVars, dialogVars>>
bkOthers == <<dlVars, lockVars, fetchVars, plugVars, dbVars, tagVars, queueVars, mgrVars, localVars, dialogVars>>
tagOthers == <<dlVars, lockVars, fetchVars, plugVars, dbVars, bkVars, queueVars, mgrVars, localVars, dialogVars>>
queueOthers == <<dlVars, lockVars, fetchVars, plugVars, dbVars, bkVars, tagVars, mgrVars, localVars, dialogVars>>
mgrOthers == <<dlVars, lockVars, fetchVars, plugVars, dbVars, bkVars, tagVars, queueVars, localVars, dialogVars>>
localOthers == <<dlVars, lockVars, fetchVars, plugVars, dbVars, bkVars, tagVars, queueVars, mgrVars, dialogVars>>
dialogOthers == <<dlVars, lockVars, fetchVars, plugVars, dbVars, bkVars, tagVars, queueVars, mgrVars, localVars>>

\* ============================================================= DOWNLOADER
\* DownloaderItem.IN_QUEUE, DOWNLOADING, FINISHED, CANCELLED = range(4)
IN_QUEUE == 0
DOWNLOADING == 1
FINISHED == 2
CANCELLED == 3

DLInit ==
    /\ started = FALSE
    /\ inc_queue = <<>>
    /\ queued = [i \in Items |-> FALSE]
    /\ isMulti \in [Items -> BOOLEAN]
    /\ current_state = [i \in Items |-> IN_QUEUE]
    /\ file = [i \in Items |-> ""]
    /\ current_size = [i \in Items |-> 0]
    /\ total_size = [i \in Items |-> 0]
    /\ active_items = <<>>
    /\ partExists = [i \in Items |-> FALSE]
    /\ file_rdy = [i \in Items |-> 0]
    /\ item_finished = [i \in Items |-> 0]
    /\ wpc = [w \in Workers |-> "unstarted"]
    /\ witem = [w \in Workers |-> NoItem]
    /\ interrupt = [w \in Workers |-> FALSE]
    /\ remaining = [w \in Workers |-> 0]
    /\ urlIdx = [w \in Workers |-> 0]
    /\ knownSum = [w \in Workers |-> 0]
    /\ midCancel = [i \in Items |-> FALSE]
    /\ seen = [w \in Workers |-> [local |-> 0, length |-> 0]]

\* A streamed response as the worker sees it: the chunks iter_content will yield
\* and the content-length header (_get_total_size: 0 when the header is missing).
Responses == {r \in [chunks : 0..MaxChunks, length : 0..MaxChunks] :
                 r.length \in {0, r.chunks}}

\* Downloader.start_manager(max_tasks): one thread per task, each in _downloading
start_manager ==
    /\ ~started
    /\ started' = TRUE
    /\ wpc' = [w \in Workers |-> "idle"]
    /\ UNCHANGED <<inc_queue, queued, isMulti, current_state, file, current_size,
                   total_size, active_items, partExists, file_rdy, item_finished,
                   witem, interrupt, remaining, urlIdx, knownSum, midCancel>>
    /\ UNCHANGED dlOthers

\* Downloader.add_to_queue(item)
add_to_queue(i) ==
    /\ ~queued[i]
    /\ queued' = [queued EXCEPT ![i] = TRUE]
    /\ inc_queue' = Append(inc_queue, i)
    /\ UNCHANGED <<started, isMulti, current_state, file, current_size, total_size,
                   active_items, partExists, file_rdy, item_finished, wpc, witem,
                   interrupt, remaining, urlIdx, knownSum, midCancel>>
    /\ UNCHANGED dlOthers

\* The worker holding item i is between setting DOWNLOADING and marking it finished
\* (single-url path)
InSingleTransfer(i) ==
    \E w \in Workers :
        /\ witem[w] = i
        /\ wpc[w] \in {"s_response", "s_transfer", "s_post", "s_finish"}

\* DownloaderItem.cancel(): an unconditional store
cancel(i) ==
    /\ queued[i]
    /\ current_state' = [current_state EXCEPT ![i] = CANCELLED]
    /\ midCancel' = [midCancel EXCEPT ![i] = @ \/ InSingleTransfer(i)]
    /\ UNCHANGED <<started, inc_queue, queued, isMulti, file, current_size, total_size,
                   active_items, partExists, file_rdy, item_finished, wpc, witem,
                   interrupt, remaining, urlIdx, knownSum>>
    /\ UNCHANGED dlOthers

\* _downloading, lines 545-546: interrupt = False; item = self._inc_queue.get()
Downloading_GetItem(w) ==
    /\ wpc[w] = "idle"
    /\ inc_queue # <<>>
    /\ witem' = [witem EXCEPT ![w] = Head(inc_queue)]
    /\ inc_queue' = Tail(inc_queue)
    /\ interrupt' = [interrupt EXCEPT ![w] = FALSE]
    /\ wpc' = [wpc EXCEPT ![w] = "got"]
    /\ UNCHANGED <<started, queued, isMulti, current_state, file, current_size,
                   total_size, active_items, partExists, file_rdy, item_finished,
                   remaining, urlIdx, knownSum, midCancel>>
    /\ UNCHANGED dlOthers

\* The state a worker gives the item it has just dequeued (line 549)
StartState(old) == DOWNLOADING

\* _downloading, lines 549-564: mark DOWNLOADING, append to active_items, branch
Downloading_Start(w) ==
    /\ wpc[w] = "got"
    /\ LET i == witem[w] IN
        /\ current_state' = [current_state EXCEPT ![i] = StartState(@)]
        /\ active_items' = Append(active_items, i)
        /\ wpc' = [wpc EXCEPT ![w] = IF isMulti[i] THEN "m_url" ELSE "s_response"]
        /\ urlIdx' = [urlIdx EXCEPT ![w] = IF isMulti[i] THEN 1 ELSE 0]
        /\ knownSum' = [knownSum EXCEPT ![w] = 0]
    /\ UNCHANGED <<started, inc_queue, queued, isMulti, file, current_size, total_size,
                   partExists, file_rdy, item_finished, witem, interrupt, remaining,
                   midCancel>>
    /\ UNCHANGED dlOthers

\* An exception leaves _downloading (it has no try): the thread ends, holding its item
WorkerDies(w) ==
    /\ wpc' = [wpc EXCEPT ![w] = "dead"]
    /\ UNCHANGED <<started, inc_queue, queued, isMulti, current_state, file,
                   current_size, total_size, active_items, partExists, file_rdy,
                   item_finished, witem, interrupt, remaining, urlIdx, knownSum,
                   midCancel>>
    /\ UNCHANGED dlOthers

\* _download_item_with_single_dl_url, lines 516-522 up to open(target_file, 'wb')
Single_GetResponse(w) ==
    /\ wpc[w] = "s_response"
    /\ \/ WorkerDies(w)                   \* requests.get raised
       \/ \E r \in Responses :
            /\ total_size' = [total_size EXCEPT ![witem[w]] = r.length]
            /\ partExists' = [partExists EXCEPT ![witem[w]] = TRUE]
            /\ remaining' = [remaining EXCEPT ![w] = r.chunks]
            /\ wpc' = [wpc EXCEPT ![w] = "s_transfer"]
            /\ UNCHANGED <<started, inc_queue, queued, isMulti, current_state, file,
                           current_size, active_items, file_rdy, item_finished, witem,
                           interrupt, urlIdx, knownSum, midCancel>>
    /\ UNCHANGED dlOthers

\* The transfer loop's test of the item before it writes a chunk (line 197)
CancelSeen(i) == current_state[i] = CANCELLED

\* _download_with_simple_method, lines 196-203: one turn of the chunk loop of the
\* worker at `here`; the loop is left for `next`
ChunkLoop(w, here, next) ==
    /\ wpc[w] = here
    /\ LET i == witem[w] IN
       \/ /\ remaining[w] > 0
          /\ CancelSeen(i)
          /\ interrupt' = [interrupt EXCEPT ![w] = TRUE]
          /\ wpc' = [wpc EXCEPT ![w] = next]
          /\ UNCHANGED <<current_size, remaining>>
       \/ /\ remaining[w] > 0
          /\ ~CancelSeen(i)
          /\ current_size' = [current_size EXCEPT ![i] = @ + 1]
          /\ remaining' = [remaining EXCEPT ![w] = @ - 1]
          /\ UNCHANGED <<interrupt, wpc>>
       \/ /\ remaining[w] = 0            \* the iterator is exhausted
          /\ wpc' = [wpc EXCEPT ![w] = next]
          /\ UNCHANGED <<current_size, remaining, interrupt>>
    /\ UNCHANGED <<started, inc_queue, queued, isMulti, current_state, file, total_size,
                   active_items, partExists, file_rdy, item_finished, witem, urlIdx,
                   knownSum, midCancel>>
    /\ UNCHANGED dlOthers

\* _download_single_file -> _download_with_simple_method on <name>.part
Single_Chunk(w) == ChunkLoop(w, "s_transfer", "s_post")

\* the stream raises in the middle of the transfer
Single_ChunkError(w) ==
    /\ wpc[w] = "s_transfer"
    /\ remaining[w] > 0
    /\ WorkerDies(w)

\* Downloader._rename_file(filename, filename_part, max_loop=100), lines 366-397:
\* n is where its loop stopped (the first attempt whose os.rename succeeded, or
\* max_loop when all failed); the result is the name it returns.
max_loop == 100
rename_file(file_name, file_name_part, n) ==
    IF n > max_loop THEN file_name_part ELSE file_name

\* _download_item_with_single_dl_url, lines 524-532 and 537-538
Single_Post(w) ==
    /\ wpc[w] = "s_post"
    /\ LET i == witem[w] IN
       \/ /\ ~interrupt[w]
          /\ \/ /\ partExists' = [partExists EXCEPT ![i] = FALSE]  \* os.rename worked
                /\ file' = [file EXCEPT ![i] = "final"]
             \/ \E n \in {0, 1, max_loop} :                         \* OSError
                /\ file' = [file EXCEPT ![i] = rename_file("final", "part", n)]
                /\ UNCHANGED partExists
          /\ wpc' = [wpc EXCEPT ![w] = "s_finish"]
       \/ /\ interrupt[w]
          /\ partExists' = [partExists EXCEPT ![i] = FALSE]         \* remove_file
          /\ wpc' = [wpc EXCEPT ![w] = "done"]
          /\ UNCHANGED file
    /\ UNCHANGED <<started, inc_queue, queued, isMulti, current_state, current_size,
                   total_size, active_items, file_rdy, item_finished, witem, interrupt,
                   remaining, urlIdx, knownSum, midCancel>>
    /\ UNCHANGED dlOthers

\* lines 533-536: item.current_state = item.FINISHED and the two emits
Single_Finish(w) ==
    /\ wpc[w] = "s_finish"
    /\ LET i == witem[w] IN
        /\ current_state' = [current_state EXCEPT ![i] = FINISHED]
        /\ file_rdy' = [file_rdy EXCEPT ![i] = @ + 1]
        /\ item_finished' = [item_finished EXCEPT ![i] = @ + 1]
    /\ wpc' = [wpc EXCEPT ![w] = "done"]
    /\ UNCHANGED <<started, inc_queue, queued, isMulti, file, current_size, total_size,
                   active_items, partExists, witem, interrupt, remaining, urlIdx,
                   knownSum, midCancel>>
    /\ UNCHANGED dlOthers

\* list.remove(x): the list without its first x
RemoveFirst(seq, x) ==
    LET k == CHOOSE j \in 1..Len(seq) :
                 seq[j] = x /\ \A m \in 1..(j - 1) : seq[m] # x
    IN  SubSeq(seq, 1, k - 1) \o SubSeq(seq, k + 1, Len(seq))

\* _downloading, lines 568-569: active_items.remove(item); task_done(); loop
Downloading_Done(w) ==
    /\ wpc[w] = "done"
    /\ active_items' = RemoveFirst(active_items, witem[w])
    /\ witem' = [witem EXCEPT ![w] = NoItem]
    /\ wpc' = [wpc EXCEPT ![w] = "idle"]
    /\ UNCHANGED <<started, inc_queue, queued, isMulti, current_state, file,
                   current_size, total_size, partExists, file_rdy, item_finished,
                   interrupt, remaining, urlIdx, knownSum, midCancel>>
    /\ UNCHANGED dlOthers

\* Downloader._get_total_size_prediction, lines 400-414, on the sum and the length
\* of known_filesize
get_total_size_prediction(sum, known_len, urls_len) ==
    IF known_len = 0 THEN 0
    ELSE IF known_len = urls_len THEN sum
    ELSE (sum * urls_len) \div known_len

\* the for loop of _download_item_with_multiple_dl_url moves to its next sub-url
NextUrlPc(w) == IF urlIdx[w] < NumUrls THEN "m_url" ELSE "m_post"
NextUrlIdx(w) == IF urlIdx[w] < NumUrls THEN urlIdx[w] + 1 ELSE urlIdx[w]

\* the test with the size comparison left out
AlreadyDownloaded_AnySize(target_filesize, response_filesize) == target_filesize # 0

\* line 466: target_filesize == current_response_filesize and target_filesize != 0
AlreadyDownloaded(target_filesize, response_filesize) ==
    target_filesize = response_filesize /\ target_filesize # 0

\* _download_item_with_multiple_dl_url, lines 454-475: the response of one sub-url,
\* the size estimate, and the test of the file already on disk (local: its size)
Multi_GetResponse(w) ==
    /\ wpc[w] = "m_url"
    /\ \/ WorkerDies(w)                   \* requests.get raised
       \/ \E r \in Responses, local \in 0..MaxChunks :
          LET i == witem[w] IN
            /\ knownSum' = [knownSum EXCEPT ![w] = @ + r.length]
            /\ total_size' = [total_size EXCEPT ![i] =
                   get_total_size_prediction(knownSum[w] + r.length, urlIdx[w], NumUrls)]
            /\ seen' = [seen EXCEPT ![w] = [local |-> local, length |-> r.length]]
            /\ \/ /\ AlreadyDownloaded(local, r.length)
                  /\ current_size' = [current_size EXCEPT ![i] = @ + r.length]
                  /\ wpc' = [wpc EXCEPT ![w] = NextUrlPc(w)]
                  /\ urlIdx' = [urlIdx EXCEPT ![w] = NextUrlIdx(w)]
                  /\ UNCHANGED remaining
               \/ /\ ~AlreadyDownloaded(local, r.length)
                  /\ remaining' = [remaining EXCEPT ![w] = r.chunks]
                  /\ wpc' = [wpc EXCEPT ![w] = "m_transfer"]
                  /\ UNCHANGED <<current_size, urlIdx>>
            /\ UNCHANGED <<started, inc_queue, queued, isMulti, current_state, file,
                           active_items, partExists, file_rdy, item_finished, witem,
                           interrupt, midCancel>>
            /\ UNCHANGED dlRest

\* _download_single_file(use_tempfile=True, catch_errors=(ConnectionError,)) ->
\* _download_with_simple_method on a temporary file.  A ConnectionError restarts
\* the same loop on the same response (_download_with_catch_error): no state changes.
Multi_Chunk(w) == ChunkLoop(w, "m_transfer", "m_copy")

\* any other exception in the middle of the transfer
Multi_ChunkError(w) ==
    /\ wpc[w] = "m_transfer"
    /\ remaining[w] > 0
    /\ WorkerDies(w)

\* lines 353-354: copy the temporary file into place unless cancelled; next sub-url
Multi_Copy(w) ==
    /\ wpc[w] = "m_copy"
    /\ wpc' = [wpc EXCEPT ![w] = NextUrlPc(w)]
    /\ urlIdx' = [urlIdx EXCEPT ![w] = NextUrlIdx(w)]
    /\ UNCHANGED <<started, inc_queue, queued, isMulti, current_state, file,
                   current_size, total_size, active_items, partExists, file_rdy,
                   item_finished, witem, interrupt, remaining, knownSum, midCancel>>
    /\ UNCHANGED dlOthers

\* lines 492-493: if not interrupt_state: item.current_state = item.FINISHED
Multi_Post(w) ==
    /\ wpc[w] = "m_post"
    /\ \/ /\ ~interrupt[w]
          /\ current_state' = [current_state EXCEPT ![witem[w]] = FINISHED]
          /\ wpc' = [wpc EXCEPT ![w] = "m_setfile"]
       \/ /\ interrupt[w]
          /\ wpc' = [wpc EXCEPT ![w] = "done"]
          /\ UNCHANGED current_state
    /\ UNCHANGED <<started, inc_queue, queued, isMulti, file, current_size, total_size,
                   active_items, partExists, file_rdy, item_finished, witem, interrupt,
                   remaining, urlIdx, knownSum, midCancel>>
    /\ UNCHANGED dlOthers

\* lines 494-497: item.file = folder and the two emits
Multi_SetFile(w) ==
    /\ wpc[w] = "m_setfile"
    /\ LET i == witem[w] IN
        /\ file' = [file EXCEPT ![i] = "folder"]
        /\ file_rdy' = [file_rdy EXCEPT ![i] = @ + 1]
        /\ item_finished' = [item_finished EXCEPT ![i] = @ + 1]
    /\ wpc' = [wpc EXCEPT ![w] = "done"]
    /\ UNCHANGED <<started, inc_queue, queued, isMulti, current_state, current_size,
                   total_size, active_items, partExists, witem, interrupt, remaining,
                   urlIdx, knownSum, midCancel>>
    /\ UNCHANGED dlOthers

DLNext ==
    \/ start_manager
    \/ \E i \in Items : add_to_queue(i)
    \/ \E i \in Items : cancel(i)
    \/ \E w \in Workers : Downloading_GetItem(w)
    \/ \E w \in Workers : Downloading_Start(w)
    \/ \E w \in Workers : Single_GetResponse(w)
    \/ \E w \in Workers : Single_Chunk(w)
    \/ \E w \in Workers : Single_ChunkError(w)
    \/ \E w \in Workers : Single_Post(w)
    \/ \E w \in Workers : Single_Finish(w)
    \/ \E w \in Workers : Multi_GetResponse(w)
    \/ \E w \in Workers : Multi_Chunk(w)
    \/ \E w \in Workers : Multi_ChunkError(w)
    \/ \E w \in Workers : Multi_Copy(w)
    \/ \E w \in Workers : Multi_Post(w)
    \/ \E w \in Workers : Multi_SetFile(w)
    \/ \E w \in Workers : Downloading_Done(w)


\* ------------------------------------------------------- downloader claims
\* position of a state on IN_QUEUE -> DOWNLOADING -> {FINISHED | CANCELLED}
StateRank(st) == IF st = IN_QUEUE THEN 0 ELSE IF st = DOWNLOADING THEN 1 ELSE 2

\* C1: every change of an item's current_state moves it forward along
\* IN_QUEUE -> DOWNLOADING -> {FINISHED | CANCELLED}: a CANCELLED or FINISHED item
\* never changes state again, a cancelled queued item is never set to DOWNLOADING.
C1_StateOnlyMovesForward ==
    [][\A i \in Items :
          \/ current_state'[i] = current_state[i]
          \/ StateRank(current_state[i]) < StateRank(current_state'[i])]_vars

\* the worker that handled item i has returned from
\* _download_item_with_single_dl_url (or no worker holds the item any more)
SingleReturned(i) ==
    \A w \in Workers : witem[w] = i => wpc[w] = "done"

\* C2: a single-url item marked CANCELLED while its transfer is in progress never
\* reaches FINISHED, never has its path set, fires neither notification, and its
\* .part file is gone once the worker has returned from the transfer.
C2_MidTransferCancelLeavesNothing ==
    \A i \in Items :
        midCancel[i] =>
            /\ current_state[i] # FINISHED
            /\ file[i] = ""
            /\ file_rdy[i] = 0
            /\ item_finished[i] = 0
            /\ (SingleReturned(i) => ~partExists[i])

\* worker w has just compared sizes for a sub-url (and was not ended by an error)
ComparedSizes(w) ==
    /\ wpc[w] = "m_url"
    /\ wpc'[w] # wpc[w] \/ urlIdx'[w] # urlIdx[w]
    /\ wpc'[w] # "dead"

InActiveItems(i) == \E k \in 1..Len(active_items) : active_items[k] = i

\* C20: an item is on the active-items list only while a live worker holds it
\* (it is removed when its worker is done with it, an error included), and
\* file-ready and item-finished have fired the same number of times, at most
\* once, and only with the item's path recorded.
C20_ActiveWhileWorkedOnAndNotifiedOnce ==
    \A i \in Items :
        /\ InActiveItems(i) => \E w \in Workers : witem[w] = i /\ wpc[w] # "dead"
        /\ file_rdy[i] = item_finished[i]
        /\ file_rdy[i] <= 1
        /\ file_rdy[i] = 1 => file[i] # ""

\* C24: when a single-url transfer has ended without interrupt and the path is
\* recorded, the path names where the downloaded data is: the final name only
\* if the data was renamed away from <name>.part, the part-file name only if
\* the data is still there.
C24_RecordedPathIsWhereDataIs ==
    \A w \in Workers :
        wpc[w] = "s_finish" =>
            \/ file[witem[w]] = "final" /\ ~partExists[witem[w]]
            \/ file[witem[w]] = "part" /\ partExists[witem[w]]

\* C28: a worker thread is never ended by a failed transfer: every started
\* worker stays alive, so whatever is queued is still taken by some worker.
C28_WorkersOutliveFailedTransfers ==
    \A w \in Workers : wpc[w] # "dead"

\* C29: in every state, an item whose current_state is FINISHED has its path
\* recorded: the final file for a single-url item, the folder for a multi-url
\* item.
C29_FinishedOnlyWithPath ==
    \A i \in Items :
        current_state[i] = FINISHED =>
            file[i] = (IF isMulti[i] THEN "folder" ELSE "final")

\* ================================================== METADATA CLIENTS: LOCK
\* metadata-client instances that exist, each used by one thread
NumClients == 2
\* hashes one search call is given
MaxHashes == 2
\* the clock stops here
MaxTime == 8
\* CommenHen.TIME_RAND = app_constants.GLOBAL_EHEN_TIME (a configuration value,
\* at least 3: random.randint(3, TIME_RAND))
TIME_RAND == 4
\* the shortest sleep of begin_lock: random.randint(3, self.TIME_RAND)
MinSleep == 3

Clients == 1..NumClients
\* concrete CommenHen subclasses that fetch over the network
HenClasses == {"EHen", "ExHen", "ChaikaHen"}
\* EHen.get_metadata / EHen.search (inherited by ExHen) call begin_lock
CallsBeginLock(cls) == cls \in {"EHen", "ExHen"}
\* an instance attribute that was never assigned
Unset == -1

\* class body of CommenHen, lines 957-961, at import time; no call is running
LockInit ==
    /\ henClass \in [Clients -> HenClasses]
    /\ LOCK = FALSE
    /\ holders = {}
    /\ clsLAST_USED = 0
    /\ instLAST_USED = [c \in Clients |-> Unset]
    /\ now = 0
    /\ cpc = [c \in Clients |-> "idle"]
    /\ hashesLeft = [c \in Clients |-> 0]
    /\ cres = [c \in Clients |-> "none"]
    /\ relTime = Unset
    /\ relBy = 0
    /\ seenLU = [c \in Clients |-> Unset]
    /\ passedAt = [c \in Clients |-> Unset]

\* time passes
Tick ==
    /\ now < MaxTime
    /\ now' = now + 1
    /\ UNCHANGED <<henClass, LOCK, holders, clsLAST_USED, instLAST_USED, cpc,
                   hashesLeft, cres, relTime, relBy, seenLU, passedAt>>
    /\ UNCHANGED lockOthers

\* attribute lookup self.LAST_USED: the instance's own attribute, else the class's
ReadLAST_USED(c) ==
    IF instLAST_USED[c] # Unset THEN instLAST_USED[c] ELSE clsLAST_USED

\* (mutant) a Lock of the instance's own, never held by another instance
LockFree_PerInstance(c) == c \notin holders

\* self.LOCK.acquire() can return: the one class-level Lock is not held
LockFree(c) == ~LOCK

\* begin_lock, line 968: self.LOCK.acquire()
begin_lock_acquire(c) ==
    /\ cpc[c] \in {"gm_acquire", "s_acquire"}
    /\ LockFree(c)
    /\ LOCK' = TRUE
    /\ holders' = holders \cup {c}
    /\ cpc' = [cpc EXCEPT ![c] = IF @ = "gm_acquire" THEN "gm_wait" ELSE "s_wait"]
    /\ UNCHANGED <<henClass, clsLAST_USED, instLAST_USED, now, hashesLeft, cres,
                   relTime, relBy, seenLU, passedAt>>
    /\ UNCHANGED lockOthers

\* begin_lock, lines 970-972: one test of the while loop, and its sleep
begin_lock_wait(c) ==
    /\ cpc[c] \in {"gm_wait", "s_wait"}
    /\ \/ /\ now - ReadLAST_USED(c) < TIME_RAND
          /\ \E t \in MinSleep..TIME_RAND :
                /\ now + t <= MaxTime
                /\ now' = now + t
          /\ UNCHANGED <<cpc, seenLU, passedAt>>
       \/ /\ ~(now - ReadLAST_USED(c) < TIME_RAND)
          /\ cpc' = [cpc EXCEPT ![c] = IF @ = "gm_wait" THEN "gm_request" ELSE "s_request"]
          /\ seenLU' = [seenLU EXCEPT ![c] = ReadLAST_USED(c)]
          /\ passedAt' = [passedAt EXCEPT ![c] = now]
          /\ UNCHANGED now
    /\ UNCHANGED <<henClass, LOCK, holders, clsLAST_USED, instLAST_USED, hashesLeft,
                   cres, relTime, relBy>>
    /\ UNCHANGED lockOthers

\* end_lock, lines 978-979: self.LAST_USED = time.time(); self.LOCK.release()
\* (the store creates or updates the instance's attribute)
end_lock(c) ==
    /\ instLAST_USED' = [instLAST_USED EXCEPT ![c] = now]
    /\ UNCHANGED clsLAST_USED
    /\ LOCK' = FALSE
    /\ holders' = holders \ {c}
    /\ relTime' = now
    /\ relBy' = c

\* the call ends without touching the lock
KeepLock == UNCHANGED <<LOCK, holders, clsLAST_USED, instLAST_USED, relTime, relBy>>

\* EHen.get_metadata, lines 1277-1294 and 1308: more than 25 urls, or no url that
\* parses, returns None before any request; otherwise begin_lock is called
get_metadata_call(c) ==
    /\ cpc[c] = "idle"
    /\ CallsBeginLock(henClass[c])
    /\ \/ /\ cres' = [cres EXCEPT ![c] = "None"]
          /\ UNCHANGED cpc
       \/ /\ cpc' = [cpc EXCEPT ![c] = "gm_acquire"]
          /\ cres' = [cres EXCEPT ![c] = "running"]
    /\ KeepLock
    /\ UNCHANGED <<henClass, now, hashesLeft, seenLU, passedAt>>
    /\ UNCHANGED lockOthers

\* EHen.get_metadata, lines 1295-1314: the POST and what follows it
get_metadata_request(c) ==
    /\ cpc[c] = "gm_request"
    /\ cpc' = [cpc EXCEPT ![c] = "idle"]
    /\ \/ /\ end_lock(c)                  \* requests.ConnectionError (line 1301)
          /\ cres' = [cres EXCEPT ![c] = "raised"]
       \/ /\ KeepLock                     \* any other exception of requests.post
          /\ cres' = [cres EXCEPT ![c] = "raised"]
       \/ /\ end_lock(c)                  \* a response (line 1305)
          /\ \E r \in {"error", "None", "data"} : cres' = [cres EXCEPT ![c] = r]
    /\ UNCHANGED <<henClass, now, hashesLeft, seenLU, passedAt>>
    /\ UNCHANGED lockOthers

\* EHen.search, lines 1457-1459: the loop over the hashes starts
search_call(c) ==
    /\ cpc[c] = "idle"
    /\ CallsBeginLock(henClass[c])
    /\ \E n \in 1..MaxHashes : hashesLeft' = [hashesLeft EXCEPT ![c] = n]
    /\ cpc' = [cpc EXCEPT ![c] = "s_acquire"]
    /\ cres' = [cres EXCEPT ![c] = "running"]
    /\ KeepLock
    /\ UNCHANGED <<henClass, now, seenLU, passedAt>>
    /\ UNCHANGED lockOthers

\* EHen.search, lines 1460-1481: one hash's request inside the lock
search_request(c) ==
    /\ cpc[c] = "s_request"
    /\ \/ /\ KeepLock                     \* handle_error false: return 'error' (1475)
          /\ cres' = [cres EXCEPT ![c] = "error"]
          /\ cpc' = [cpc EXCEPT ![c] = "idle"]
          /\ hashesLeft' = [hashesLeft EXCEPT ![c] = 0]
       \/ /\ end_lock(c)                  \* requests.ConnectionError (line 1477)
          /\ cres' = [cres EXCEPT ![c] = "raised"]
          /\ cpc' = [cpc EXCEPT ![c] = "idle"]
          /\ hashesLeft' = [hashesLeft EXCEPT ![c] = 0]
       \/ /\ KeepLock                     \* any other exception of the request
          /\ cres' = [cres EXCEPT ![c] = "raised"]
          /\ cpc' = [cpc EXCEPT ![c] = "idle"]
          /\ hashesLeft' = [hashesLeft EXCEPT ![c] = 0]
       \/ /\ end_lock(c)                  \* line 1481, then the next hash
          /\ hashesLeft' = [hashesLeft EXCEPT ![c] = @ - 1]
          /\ cpc' = [cpc EXCEPT ![c] = IF hashesLeft[c] > 1 THEN "s_acquire" ELSE "idle"]
          /\ cres' = [cres EXCEPT ![c] = IF hashesLeft[c] > 1 THEN "running" ELSE "data"]
    /\ UNCHANGED <<henClass, now, seenLU, passedAt>>
    /\ UNCHANGED lockOthers

\* ChaikaHen.get_metadata, lines 1555-1558: the loop over the urls starts; no lock
chaika_get_metadata_call(c) ==
    /\ cpc[c] = "idle"
    /\ henClass[c] = "ChaikaHen"
    /\ \E n \in 1..MaxHashes : hashesLeft' = [hashesLeft EXCEPT ![c] = n]
    /\ cpc' = [cpc EXCEPT ![c] = "ch_request"]
    /\ cres' = [cres EXCEPT ![c] = "running"]
    /\ KeepLock
    /\ UNCHANGED <<henClass, now, seenLU, passedAt>>
    /\ UNCHANGED lockOthers

\* ChaikaHen.get_metadata, lines 1571-1596: requests.get(url) for one url
chaika_get_metadata_request(c) ==
    /\ cpc[c] = "ch_request"
    /\ \/ /\ \E r \in {"raised", "None"} : cres' = [cres EXCEPT ![c] = r]
          /\ cpc' = [cpc EXCEPT ![c] = "idle"]
          /\ hashesLeft' = [hashesLeft EXCEPT ![c] = 0]
       \/ /\ hashesLeft' = [hashesLeft EXCEPT ![c] = @ - 1]
          /\ cpc' = [cpc EXCEPT ![c] = IF hashesLeft[c] > 1 THEN "ch_request" ELSE "idle"]
          /\ cres' = [cres EXCEPT ![c] = IF hashesLeft[c] > 1 THEN "running" ELSE "data"]
    /\ KeepLock
    /\ UNCHANGED <<henClass, now, seenLU, passedAt>>
    /\ UNCHANGED lockOthers

LockNext ==
    \/ Tick
    \/ \E c \in Clients : get_metadata_call(c)
    \/ \E c \in Clients : search_call(c)
    \/ \E c \in Clients : begin_lock_acquire(c)
    \/ \E c \in Clients : begin_lock_wait(c)
    \/ \E c \in Clients : get_metadata_request(c)
    \/ \E c \in Clients : search_request(c)
    \/ \E c \in Clients : chaika_get_metadata_call(c)
    \/ \E c \in Clients : chaika_get_metadata_request(c)

\* ------------------------------------------------------------- lock claims
\* the client's network call is in progress
InRequest(c) == cpc[c] \in {"gm_request", "s_request", "ch_request"}
\* ... and it is a call of a client whose methods call begin_lock
InLockedRequest(c) == cpc[c] \in {"gm_request", "s_request"}

\* C3 (as stated): whatever the clients' classes, no two network calls are in
\* progress at once and every network call is made by a holder of the lock.
C3_AnySubclassSerialized ==
    /\ \A c1, c2 \in Clients : InRequest(c1) /\ InRequest(c2) => c1 = c2
    /\ \A c \in Clients : InRequest(c) => c \in holders

\* C3 (amended): for clients of the classes that call begin_lock (EHen, ExHen), no
\* two callers hold the lock at once, every network call is made by a holder of
\* the lock, and no two such calls are in progress at once.
C3_LockedBatchesSerialized ==
    /\ Cardinality(holders) <= 1
    /\ \A c \in Clients : InLockedRequest(c) => c \in holders
    /\ \A c1, c2 \in Clients : InLockedRequest(c1) /\ InLockedRequest(c2) => c1 = c2

\* an EHen client is in its network call while an ExHen client is blocked in acquire()
C3_Witness ==
    \E c1, c2 \in Clients :
        /\ henClass[c1] = "EHen" /\ henClass[c2] = "ExHen"
        /\ InLockedRequest(c1)
        /\ cpc[c2] \in {"gm_acquire", "s_acquire"}

\* C25: a client whose get_metadata or search call has returned or raised does
\* not hold the request lock: the lock is never left held by a finished call.
C25_LockReleasedOnEveryPath ==
    \A c \in Clients : cpc[c] = "idle" => c \notin holders

\* C4: the batch of a client that got through begin_lock after another instance's
\* end_lock saw LAST_USED advanced by that release and started at least TIME_RAND
\* after it.
C4_CooldownIsProcessWide ==
    \A c \in Clients :
        (InLockedRequest(c) /\ relBy # 0 /\ relBy # c) =>
            /\ seenLU[c] >= relTime
            /\ passedAt[c] - relTime >= TIME_RAND

\* ================================================= AUTO METADATA FETCHER
\* threads that call auto_web_metadata, each on its own Fetch object
NumFetchThreads == 2
\* galleries in each Fetch object's self.galleries (never empty here)
NumGalleries == 2
\* candidates a hash search returns at most
MaxHits == 2

FThreads == 1..NumFetchThreads
Galleries == 1..NumGalleries

\* the values of gallery.temp_url: unset, gallery.link, or candidate k of the
\* hash search thread t made for gallery g
NoUrl == [from |-> "", t |-> 0, g |-> 0, k |-> 0]
LinkUrl == [from |-> "link", t |-> 0, g |-> 0, k |-> 0]
HitUrl(t, g, k) == [from |-> "search", t |-> t, g |-> g, k |-> k]

\* module state at import; no call is running
FetchInit ==
    /\ GLOBAL_EHEN_LOCK = FALSE
    /\ use_ehen_api \in BOOLEAN
    /\ first_hit \in BOOLEAN
    /\ fpc = [t \in FThreads |-> "idle"]
    /\ gx = [t \in FThreads |-> 1]
    /\ error_galleries = [t \in FThreads |-> {}]
    /\ pre_url = [t \in FThreads |-> <<>>]
    /\ applied = [t \in FThreads |-> {}]
    /\ temp_url = [t \in FThreads |-> [g \in Galleries |-> NoUrl]]
    /\ finished_sig = [t \in FThreads |-> <<>>]
    /\ progress = [t \in FThreads |-> ""]
    /\ picker_queue = <<>>
    /\ picker_req = {}
    /\ outcome = [t \in FThreads |-> "none"]

\* a thread calls auto_web_metadata (line 213): the call's locals are fresh
awm_call(t) ==
    /\ fpc[t] = "idle"
    /\ fpc' = [fpc EXCEPT ![t] = "check"]
    /\ gx' = [gx EXCEPT ![t] = 1]
    /\ error_galleries' = [error_galleries EXCEPT ![t] = {}]
    /\ pre_url' = [pre_url EXCEPT ![t] = <<>>]
    /\ applied' = [applied EXCEPT ![t] = {}]
    /\ temp_url' = [temp_url EXCEPT ![t] = [g \in Galleries |-> NoUrl]]
    /\ finished_sig' = [finished_sig EXCEPT ![t] = <<>>]
    /\ progress' = [progress EXCEPT ![t] = ""]
    /\ outcome' = [outcome EXCEPT ![t] = "running"]
    /\ UNCHANGED <<GLOBAL_EHEN_LOCK, use_ehen_api, first_hit, picker_queue, picker_req>>
    /\ UNCHANGED fetchOthers

\* line 219: if self.galleries and not gui_constants.GLOBAL_EHEN_LOCK
GuardPasses(t) == ~GLOBAL_EHEN_LOCK

\* line 219, the test alone (line 220 logs before line 221 stores)
awm_check(t) ==
    /\ fpc[t] = "check"
    /\ fpc' = [fpc EXCEPT ![t] = IF GuardPasses(t) THEN "set" ELSE "reject"]
    /\ UNCHANGED <<GLOBAL_EHEN_LOCK, use_ehen_api, first_hit, gx, error_galleries,
                   pre_url, applied, temp_url, finished_sig, progress, picker_queue,
                   picker_req, outcome>>
    /\ UNCHANGED fetchOthers

\* line 221: gui_constants.GLOBAL_EHEN_LOCK = True (then the client is chosen)
awm_set_guard(t) ==
    /\ fpc[t] = "set"
    /\ GLOBAL_EHEN_LOCK' = TRUE
    /\ fpc' = [fpc EXCEPT ![t] = "loop"]
    /\ UNCHANGED <<use_ehen_api, first_hit, gx, error_galleries, pre_url, applied,
                   temp_url, finished_sig, progress, picker_queue, picker_req, outcome>>
    /\ UNCHANGED fetchOthers

\* lines 331-334: the else branch
awm_reject(t) ==
    /\ fpc[t] = "reject"
    /\ progress' = [progress EXCEPT ![t] = "already running"]
    /\ finished_sig' = [finished_sig EXCEPT ![t] = Append(@, FALSE)]
    /\ fpc' = [fpc EXCEPT ![t] = "idle"]
    /\ outcome' = [outcome EXCEPT ![t] = "rejected"]
    /\ UNCHANGED <<GLOBAL_EHEN_LOCK, use_ehen_api, first_hit, gx, error_galleries,
                   pre_url, applied, temp_url, picker_queue, picker_req>>
    /\ UNCHANGED fetchOthers

\* an exception leaves auto_web_metadata: nothing after the raising line runs
AwmRaises(t) ==
    /\ fpc' = [fpc EXCEPT ![t] = "idle"]
    /\ outcome' = [outcome EXCEPT ![t] = "raised"]

\* fetch_metadata(gallery, hen), lines 164-211, for gallery g with temp_url set:
\* with the API switch on it raises NotImplementedError (line 210); without
\* metadata it raises at line 174 (a signal object is called); else it applies
\* the metadata and returns the gallery.
FetchMetadata(t, g, next) ==
    \/ /\ ~use_ehen_api
       /\ applied' = [applied EXCEPT ![t] = @ \cup {g}]
       /\ fpc' = [fpc EXCEPT ![t] = next]
       /\ UNCHANGED outcome
    \/ /\ AwmRaises(t)
       /\ UNCHANGED applied

\* lines 243-311: one turn of the loop over self.galleries
awm_gallery(t) ==
    /\ fpc[t] = "loop"
    /\ gx[t] <= NumGalleries
    /\ LET g == gx[t] IN
       \/ /\ gx' = [gx EXCEPT ![t] = g + 1]      \* lines 248-249, 265-267: continue
          /\ UNCHANGED <<error_galleries, pre_url, applied, temp_url, picker_req,
                         fpc, outcome>>
       \/ /\ gx' = [gx EXCEPT ![t] = g + 1]      \* lines 268-271: no hash
          /\ error_galleries' = [error_galleries EXCEPT ![t] = @ \cup {g}]
          /\ UNCHANGED <<pre_url, applied, temp_url, picker_req, fpc, outcome>>
       \/ /\ gx' = [gx EXCEPT ![t] = g + 1]      \* lines 275-280: link of this host
          /\ temp_url' = [temp_url EXCEPT ![t][g] = LinkUrl]
          /\ pre_url' = [pre_url EXCEPT ![t] = Append(@, g)]
          /\ UNCHANGED <<error_galleries, applied, picker_req, fpc, outcome>>
       \/ /\ AwmRaises(t)                        \* line 284: the search raises
          /\ UNCHANGED <<gx, error_galleries, pre_url, applied, temp_url, picker_req>>
       \/ /\ gx' = [gx EXCEPT ![t] = g + 1]      \* lines 285-289: no hit
          /\ error_galleries' = [error_galleries EXCEPT ![t] = @ \cup {g}]
          /\ UNCHANGED <<pre_url, applied, temp_url, picker_req, fpc, outcome>>
       \/ \E hits \in 1..MaxHits :               \* lines 290-309: a hit is used
            /\ first_hit \/ hits = 1
            /\ temp_url' = [temp_url EXCEPT ![t][g] = HitUrl(t, g, 1)]
            /\ gx' = [gx EXCEPT ![t] = g + 1]
            /\ FetchMetadata(t, g, "loop")
            /\ UNCHANGED <<error_galleries, pre_url, picker_req>>
       \/ \E hits \in 2..MaxHits :               \* lines 295-299: ask the user
            /\ ~first_hit
            /\ picker_req' = picker_req \cup {<<t, g>>}
            /\ fpc' = [fpc EXCEPT ![t] = "pick"]
            /\ UNCHANGED <<gx, error_galleries, pre_url, applied, temp_url, outcome>>
    /\ UNCHANGED <<GLOBAL_EHEN_LOCK, use_ehen_api, first_hit, finished_sig, progress,
                   picker_queue>>
    /\ UNCHANGED fetchOthers

\* the UI answers a GALLERY_PICKER request: it puts the chosen (title, url) of that
\* request on the queue it was handed
ui_pick(req) ==
    /\ req \in picker_req
    /\ \E k \in 1..MaxHits :
          picker_queue' = Append(picker_queue, HitUrl(req[1], req[2], k))
    /\ picker_req' = picker_req \ {req}
    /\ UNCHANGED <<GLOBAL_EHEN_LOCK, use_ehen_api, first_hit, fpc, gx, error_galleries,
                   pre_url, applied, temp_url, finished_sig, progress, outcome>>
    /\ UNCHANGED fetchOthers

\* lines 299-311: GALLERY_PICKER_QUEUE.get() returns; the choice is used
awm_pick(t) ==
    /\ fpc[t] = "pick"
    /\ picker_queue # <<>>
    /\ picker_queue' = Tail(picker_queue)
    /\ temp_url' = [temp_url EXCEPT ![t][gx[t]] = Head(picker_queue)]
    /\ gx' = [gx EXCEPT ![t] = @ + 1]
    /\ FetchMetadata(t, gx[t], "loop")
    /\ UNCHANGED <<GLOBAL_EHEN_LOCK, use_ehen_api, first_hit, error_galleries, pre_url,
                   finished_sig, progress, picker_req>>
    /\ UNCHANGED fetchOthers

\* lines 313-319: the second pass, over checked_pre_url_galleries
awm_second(t) ==
    /\ fpc[t] = "loop"
    /\ gx[t] > NumGalleries
    /\ \/ /\ pre_url[t] # <<>>
          /\ pre_url' = [pre_url EXCEPT ![t] = Tail(@)]
          /\ FetchMetadata(t, Head(pre_url[t]), "loop")
       \/ /\ pre_url[t] = <<>>
          /\ fpc' = [fpc EXCEPT ![t] = "clear"]
          /\ UNCHANGED <<pre_url, applied, outcome>>
    /\ UNCHANGED <<GLOBAL_EHEN_LOCK, use_ehen_api, first_hit, gx, error_galleries,
                   temp_url, finished_sig, progress, picker_queue, picker_req>>
    /\ UNCHANGED fetchOthers

\* line 322: gui_constants.GLOBAL_EHEN_LOCK = False
awm_clear_guard(t) ==
    /\ fpc[t] = "clear"
    /\ GLOBAL_EHEN_LOCK' = FALSE
    /\ fpc' = [fpc EXCEPT ![t] = "report"]
    /\ UNCHANGED <<use_ehen_api, first_hit, gx, error_galleries, pre_url, applied,
                   temp_url, finished_sig, progress, picker_queue, picker_req, outcome>>
    /\ UNCHANGED fetchOthers

\* lines 323-330: the report.  With failures, line 329 evaluates "...".e, an
\* attribute a str does not have: AttributeError before line 330.
awm_report(t) ==
    /\ fpc[t] = "report"
    /\ \/ /\ error_galleries[t] = {}
          /\ progress' = [progress EXCEPT ![t] = "success"]
          /\ finished_sig' = [finished_sig EXCEPT ![t] = Append(@, TRUE)]
          /\ fpc' = [fpc EXCEPT ![t] = "idle"]
          /\ outcome' = [outcome EXCEPT ![t] = "returned"]
       \/ /\ error_galleries[t] # {}
          /\ progress' = [progress EXCEPT ![t] = "failure count"]
          /\ AwmRaises(t)
          /\ UNCHANGED finished_sig
    /\ UNCHANGED <<GLOBAL_EHEN_LOCK, use_ehen_api, first_hit, gx, error_galleries,
                   pre_url, applied, temp_url, picker_queue, picker_req>>
    /\ UNCHANGED fetchOthers

FetchNext ==
    \/ \E t \in FThreads : awm_call(t)
    \/ \E t \in FThreads : awm_check(t)
    \/ \E t \in FThreads : awm_set_guard(t)
    \/ \E t \in FThreads : awm_reject(t)
    \/ \E t \in FThreads : awm_gallery(t)
    \/ \E req \in FThreads \X Galleries : ui_pick(req)
    \/ \E t \in FThreads : awm_pick(t)
    \/ \E t \in FThreads : awm_second(t)
    \/ \E t \in FThreads : awm_clear_guard(t)
    \/ \E t \in FThreads : awm_report(t)

\* ------------------------------------------------------------ fetch claims
\* the call is inside the guarded branch (line 220 to line 330)
InRun(t) == fpc[t] \in {"set", "loop", "pick", "clear", "report"}

\* C5: at most one auto_web_metadata call is inside the guarded run at a time; a
\* call turned away emitted FINISHED(False) with the 'already running' message
\* and processed no gallery.
C5_OneRunAtATime ==
    /\ \A t1, t2 \in FThreads : InRun(t1) /\ InRun(t2) => t1 = t2
    /\ \A t \in FThreads :
          outcome[t] = "rejected" =>
              /\ finished_sig[t] = <<FALSE>>
              /\ progress[t] = "already running"
              /\ gx[t] = 1 /\ applied[t] = {} /\ error_galleries[t] = {}

\* C17: a run that reported FINISHED(True) recorded no failed gallery and
\* applied metadata to every gallery passed to it.
C17_SuccessMeansEveryGalleryApplied ==
    \A t \in FThreads :
        (outcome[t] = "returned" /\ finished_sig[t] = <<TRUE>>) =>
            /\ error_galleries[t] = {}
            /\ applied[t] = Galleries

\* C18: a call that set the guard and has ended cleared the guard on its way
\* and signalled exactly one final result; with a failed gallery that result
\* is FINISHED(False), after the message giving the failure count.
C18_RunEndsWithOneFinalResult ==
    \A t \in FThreads :
        outcome[t] \in {"returned", "raised"} =>
            /\ Len(finished_sig[t]) = 1
            /\ error_galleries[t] # {} =>
                  finished_sig[t] = <<FALSE>> /\ progress[t] = "failure count"

\* C19: a disambiguation request that has not been answered has its worker
\* waiting on that gallery, with always-choose-first-hit off; and a selection a
\* worker used for a gallery was made in answer to its request for that gallery.
C19_WorkerWaitsForItsOwnSelection ==
    /\ \A req \in picker_req :
          ~first_hit /\ fpc[req[1]] = "pick" /\ gx[req[1]] = req[2]
    /\ \A t \in FThreads, g \in Galleries :
          temp_url[t][g].from = "search" =>
              temp_url[t][g].t = t /\ temp_url[t][g].g = g

\* ======================================================= PLUGIN FRAMEWORK
\* plugin classes that can be registered
MaxClasses == 2
\* hook objects newHook can create
MaxHooks == 2
\* entries Plugins._connections can hold
MaxConnections == 2

HookNames == {"h", "g"}
Handlers == {"f1", "f2"}
CallArgs == {"x", "y"}
NoHook == 0

\* ---- attribute values a class body can declare
\* a text: which 122 random bits it spells (base), whether it has hyphens, whether
\* its letters are upper case, whether its version and variant digits are those of
\* a version 4 UUID, whether it is 32 hexadecimal digits once the hyphens are gone
Str(base, hy, up, v4, wf) ==
    [kind |-> "str", base |-> base, hyphens |-> hy, upper |-> up, v4 |-> v4, wf |-> wf]
NoId(kind) ==
    [kind |-> kind, base |-> 0, hyphens |-> FALSE, upper |-> FALSE, v4 |-> FALSE,
     wf |-> FALSE]
Txt(kind, val) == [kind |-> kind, val |-> val]
Ver(kind, len, elem) == [kind |-> kind, len |-> len, elem |-> elem]

\* str.replace('-', '') (lines 69, 117)
replace_hyphens(str) == [str EXCEPT !.hyphens = FALSE]

\* uuid.UUID(hex, version=4): ValueError unless the text is 32 hexadecimal digits
\* after braces and hyphens are dropped; the version and variant bits are then
\* overwritten, and .hex prints the number in lower case without hyphens
uuid_UUID(str) ==
    [ValueError |-> ~str.wf, hex |-> Str(str.base, FALSE, FALSE, TRUE, TRUE)]

Decl(id, name) ==
    [name_ok |-> TRUE, ID |-> id, NAME |-> Txt("str", name),
     VERSION |-> Ver("tuple", 3, "int"), AUTHOR |-> Txt("str", "a"),
     DESCRIPTION |-> Txt("str", "d")]

U1 == Str(1, TRUE, FALSE, TRUE, TRUE)
U2 == Str(2, FALSE, FALSE, TRUE, TRUE)

\* class statements of well-formed plugins: two plugins, and one reusing a NAME
GoodDecls == {Decl(U1, "p"), Decl(U2, "q"), Decl(U2, "p")}

\* the class statements tried: the well-formed ones, and the first of them with
\* one thing wrong at a time
ClassDecls ==
    LET d == Decl(U1, "p") IN
    GoodDecls \cup {
     [d EXCEPT !.name_ok = FALSE],
     [d EXCEPT !.ID = NoId("missing")],
     [d EXCEPT !.ID = NoId("int")],
     [d EXCEPT !.ID = Str(1, TRUE, TRUE, TRUE, TRUE)],
     [d EXCEPT !.ID = Str(1, TRUE, FALSE, FALSE, TRUE)],
     [d EXCEPT !.ID = Str(1, FALSE, FALSE, FALSE, FALSE)],
     [d EXCEPT !.NAME = Txt("missing", "")],
     [d EXCEPT !.NAME = Txt("int", "")],
     [d EXCEPT !.VERSION = Ver("missing", 0, "")],
     [d EXCEPT !.VERSION = Ver("int", 0, "")],
     [d EXCEPT !.VERSION = Ver("tuple", 2, "int")],
     [d EXCEPT !.VERSION = Ver("tuple", 3, "str")],
     [d EXCEPT !.AUTHOR = Txt("missing", "")],
     [d EXCEPT !.AUTHOR = Txt("int", "")],
     [d EXCEPT !.DESCRIPTION = Txt("missing", "")],
     [d EXCEPT !.DESCRIPTION = Txt("int", "")]}

\* plugin ids a registerHook call names
TargetIds == {U1, U2}

\* ---- Python dicts
EmptyDict == [k \in {} |-> NoHook]
DictSet(d, k, v) == [x \in (DOMAIN d) \cup {k} |-> IF x = k THEN v ELSE d[x]]

\* ---- the record of the last operation
OpRecord(op, d, r, o, args, attached, called) ==
    [op |-> op, decl |-> d, raised |-> r, hook |-> o, args |-> args,
     attached |-> attached, called |-> called]
OtherOp ==
    OpRecord("other", Decl(U1, "p"), FALSE, NoHook, "", {}, [f \in Handlers |-> <<>>])
CreateOp(d, r) == [OtherOp EXCEPT !.op = "create", !.decl = d, !.raised = r]

\* module state after import (lines 16-20, 50)
PlugInit ==
    /\ classes = <<>>
    /\ plugins = EmptyDict
    /\ hooks = EmptyDict
    /\ connections = <<>>
    /\ nHooks = 0
    /\ hookClass = [o \in 1..MaxHooks |-> 0]
    /\ classHandlers = [c \in 1..MaxHooks |-> {}]
    /\ attachedTo = [o \in 1..MaxHooks |-> {}]
    /\ lastOp = OtherOp
    /\ passEnded = FALSE

\* HPluginMeta.__init__ (lines 57-112) up to the call of register: what it does
\* with a class body declaring d
HPluginMeta_init(d) ==
    IF ~d.name_ok THEN "return"                                  \* 62-64
    ELSE IF d.ID.kind = "missing" THEN "return"                  \* 66-68
    ELSE IF d.ID.kind # "str" THEN "AttributeError"              \* 69
    ELSE IF d.NAME.kind = "missing" THEN "return"                \* 70-72
    ELSE IF d.VERSION.kind = "missing" THEN "return"             \* 73-75
    ELSE IF d.AUTHOR.kind = "missing" THEN "return"              \* 76-78
    ELSE IF d.DESCRIPTION.kind = "missing" THEN "return"         \* 79-81
    ELSE IF uuid_UUID(replace_hyphens(d.ID)).ValueError THEN "return"           \* 84, 86
    ELSE IF uuid_UUID(replace_hyphens(d.ID)).hex # replace_hyphens(d.ID)
         THEN "return"                                           \* 85, 89
    ELSE IF d.NAME.kind # "str" THEN "return"                    \* 93-95
    ELSE IF d.VERSION.kind # "tuple" THEN "return"               \* 96-98
    ELSE IF d.AUTHOR.kind # "str" THEN "return"                  \* 99-101
    ELSE IF d.DESCRIPTION.kind # "str" THEN "return"             \* 102-104
    ELSE "register"                                              \* 106-112

\* Plugins.register (lines 23-26), for the class about to become classes[k]
register(k, id, name) ==
    /\ hooks' = DictSet(hooks, id, EmptyDict)
    /\ plugins' = DictSet(plugins, name, k)

\* a class statement with metaclass HPluginMeta is executed
create_class(d) ==
    /\ lastOp' = CreateOp(d, HPluginMeta_init(d) = "AttributeError")
    /\ IF HPluginMeta_init(d) = "register"
       THEN /\ Len(classes) < MaxClasses
            /\ classes' = Append(classes, [ID |-> replace_hyphens(d.ID),
                                           NAME |-> d.NAME.val])
            /\ register(Len(classes) + 1, replace_hyphens(d.ID), d.NAME.val)
            /\ passEnded' = FALSE
       ELSE UNCHANGED <<classes, hooks, plugins, passEnded>>
    /\ UNCHANGED <<connections, nHooks, hookClass, classHandlers, attachedTo>>
    /\ UNCHANGED plugOthers

\* the Hook class a newHook call instantiates for hook object o, were every
\* call to use one class defined once at module level
NewHookClass_Shared(o) == 1

\* lines 122-129: the class statement is inside newHook, so each call makes a
\* class of its own, used for this one object
NewHookClass(o) == o

\* HPluginMeta.newHook (lines 119-133), called on registered class k
newHook(k, hookName) ==
    /\ k \in 1..Len(classes)
    /\ nHooks < MaxHooks
    /\ LET o == nHooks + 1
           c == NewHookClass(o)
           id == classes[k].ID
       IN /\ nHooks' = o
          /\ hookClass' = [hookClass EXCEPT ![o] = c]
          /\ classHandlers' =
                IF \E x \in 1..nHooks : hookClass[x] = c
                THEN classHandlers            \* the class body ran before
                ELSE [classHandlers EXCEPT ![c] = {}]     \* line 123
          /\ attachedTo' = [attachedTo EXCEPT ![o] = {}]
          /\ hooks' = DictSet(hooks, id, DictSet(hooks[id], hookName, o))   \* 133
    /\ lastOp' = OtherOp
    /\ passEnded' = FALSE
    /\ UNCHANGED <<classes, plugins, connections>>
    /\ UNCHANGED plugOthers

\* HPluginMeta.registerHook (lines 114-117), called on registered class k
registerHook(k, pluginid, hookName, handler) ==
    /\ k \in 1..Len(classes)
    /\ Len(connections) < MaxConnections
    /\ connections' = Append(connections,
          [plugin_name |-> classes[k].NAME, pluginid |-> replace_hyphens(pluginid),
           h_name |-> hookName, handler |-> handler])
    /\ lastOp' = OtherOp
    /\ passEnded' = FALSE
    /\ UNCHANGED <<classes, plugins, hooks, nHooks, hookClass, classHandlers,
                   attachedTo>>
    /\ UNCHANGED plugOthers

\* the loop of _connectHooks (lines 29-42) over conns: the (hook object, handler)
\* pairs addHandler is called with.  Either KeyError ends the method (return).
RECURSIVE AddHandlerCalls(_)
AddHandlerCalls(conns) ==
    IF conns = <<>> THEN {}
    ELSE LET c == Head(conns) IN
         IF c.pluginid \notin DOMAIN hooks THEN {}                      \* 33-35
         ELSE IF c.h_name \notin DOMAIN hooks[c.pluginid] THEN {}       \* 38-40
         ELSE {<<hooks[c.pluginid][c.h_name], c.handler>>}
                 \cup AddHandlerCalls(Tail(conns))                      \* 42

\* Plugins._connectHooks (lines 28-42); Hook.addHandler (lines 124-125) adds to
\* the set found through the object's class
connectHooks ==
    /\ classHandlers' = [c \in 1..MaxHooks |->
          classHandlers[c] \cup {a[2] : a \in {x \in AddHandlerCalls(connections) :
                                                  hookClass[x[1]] = c}}]
    /\ attachedTo' = [o \in 1..MaxHooks |->
          attachedTo[o] \cup {a[2] : a \in {x \in AddHandlerCalls(connections) :
                                               x[1] = o}}]
    /\ lastOp' = OtherOp
    /\ passEnded' = TRUE
    /\ UNCHANGED <<classes, plugins, hooks, connections, nHooks, hookClass>>
    /\ UNCHANGED plugOthers

\* registered class k looks a hook of its own up by name (__getattr__, lines
\* 135-139) and calls it (Hook.__call__, lines 127-129)
invoke(k, key, args) ==
    /\ k \in 1..Len(classes)
    /\ key \in DOMAIN hooks[classes[k].ID]
    /\ LET o == hooks[classes[k].ID][key] IN
       lastOp' = OpRecord("call", OtherOp.decl, FALSE, o, args, attachedTo[o],
                          [f \in Handlers |->
                              IF f \in classHandlers[hookClass[o]] THEN <<args>>
                              ELSE <<>>])
    /\ UNCHANGED <<classes, plugins, hooks, connections, nHooks, hookClass,
                   classHandlers, attachedTo, passEnded>>
    /\ UNCHANGED plugOthers

PlugNext ==
    \/ \E d \in GoodDecls : create_class(d)
    \/ \E k \in 1..MaxClasses, n \in HookNames : newHook(k, n)
    \/ \E k \in 1..MaxClasses, id \in TargetIds, n \in HookNames, f \in Handlers :
          registerHook(k, id, n, f)
    \/ connectHooks
    \/ \E k \in 1..MaxClasses, n \in HookNames, a \in CallArgs : invoke(k, n, a)

\* class statements only, of any declaration
ClassNext == \E d \in ClassDecls : create_class(d)

Declares(d) ==
    /\ d.ID.kind # "missing" /\ d.NAME.kind # "missing" /\ d.VERSION.kind # "missing"
    /\ d.AUTHOR.kind # "missing" /\ d.DESCRIPTION.kind # "missing"

\* the text is a UUID of version 4, in any of its usual spellings
IsUUID4String(id) == id.kind = "str" /\ id.wf /\ id.v4

WellFormed(d) ==
    /\ d.name_ok
    /\ d.NAME.kind = "str" /\ d.AUTHOR.kind = "str" /\ d.DESCRIPTION.kind = "str"
    /\ d.VERSION = Ver("tuple", 3, "int")

\* C7: a class statement never raises; it registers the class only if the class
\* declares the five attributes and its ID is a UUID4; a class missing an
\* attribute or with an ID that is not a UUID4 leaves both registries unchanged;
\* a well-formed class with a UUID4 ID is registered, instance under its NAME and
\* an empty hook map under its ID without hyphens.
C7_ClassCreationNeverRaises ==
    [][lastOp'.op = "create" =>
        LET d == lastOp'.decl IN
        /\ ~lastOp'.raised
        /\ Len(classes') > Len(classes) => Declares(d) /\ IsUUID4String(d.ID)
        /\ ~(Declares(d) /\ IsUUID4String(d.ID)) => plugins' = plugins /\ hooks' = hooks
        /\ Declares(d) /\ IsUUID4String(d.ID) /\ WellFormed(d) =>
              /\ Len(classes') = Len(classes) + 1
              /\ d.NAME.val \in DOMAIN plugins'
              /\ plugins'[d.NAME.val] = Len(classes')
              /\ replace_hyphens(d.ID) \in DOMAIN hooks']_vars

\* C8: when a wiring pass has ended, every pending connection whose target plugin
\* id and hook name exist has its handler attached to the target hook.
C8_WiringPassSkipsUnresolvable ==
    passEnded =>
        \A i \in 1..Len(connections) :
            LET c == connections[i] IN
            (c.pluginid \in DOMAIN hooks /\ c.h_name \in DOMAIN hooks[c.pluginid]) =>
                c.handler \in classHandlers[hookClass[hooks[c.pluginid][c.h_name]]]

\* C23: a class statement whose NAME, AUTHOR or DESCRIPTION is not text, or
\* whose VERSION is not a tuple of three numbers, registers nothing: the class
\* list and both registries are as before.
C23_WrongShapedNeverRegistered ==
    [][(lastOp'.op = "create" /\ Declares(lastOp'.decl) /\ ~WellFormed(lastOp'.decl)) =>
          /\ classes' = classes
          /\ plugins' = plugins
          /\ hooks' = hooks]_vars

\* C30: a class statement leaves every earlier plugin's instance under its
\* NAME, and every hook of every earlier plugin under its ID, with the handlers
\* attached to it.
C30_RegisteringKeepsEarlierPlugins ==
    [][lastOp'.op = "create" =>
          /\ \A name \in DOMAIN plugins :
                name \in DOMAIN plugins' /\ plugins'[name] = plugins[name]
          /\ \A id \in DOMAIN hooks :
                /\ id \in DOMAIN hooks'
                /\ \A n \in DOMAIN hooks[id] :
                      /\ n \in DOMAIN hooks'[id]
                      /\ hooks'[id][n] = hooks[id][n]
                      /\ attachedTo'[hooks[id][n]] = attachedTo[hooks[id][n]]]_vars

\* ==================================================== DATABASE BOOTSTRAP
\* db.py is not part of the sources at hand: init_db follows the bootstrap
\* contract and the calls tests/database/test_db.py expects of it.

\* accepted versions, oldest first, in hundredths (0.26 is 26)
DB_VERSION == <<26>>
CURRENT_DB_VERSION == DB_VERSION[1]
REAL_DB_VERSION == DB_VERSION[Len(DB_VERSION)]

\* the canonical path and some other path
Paths == {"DB_PATH", "other"}
\* versions a database file found on disk can carry
FileVersions == {25, 26}

NoFileAt == [exists |-> FALSE, table |-> FALSE, rows |-> <<>>, schema |-> FALSE]
ClosedConn == [open |-> FALSE, isolation_level |-> "", foreign_keys |-> FALSE]

\* before the first call; nothing is on disk
DBInit ==
    /\ files = [p \in Paths |-> NoFileAt]
    /\ dirs = FALSE
    /\ dpc = "idle"
    /\ dpath = "DB_PATH"
    /\ dstep = 1
    /\ isfile_ret = "unknown"
    /\ conn = ClosedConn
    /\ dcalls = <<>>
    /\ result = "pending"

\* the last call's record is dropped when the disk changes under it
ForgetCall ==
    /\ isfile_ret' = "unknown"
    /\ conn' = ClosedConn
    /\ dcalls' = <<>>
    /\ result' = "pending"

\* outside init_db: a database file of some version is put at a path
put_file(p, v) ==
    /\ dpc = "idle"
    /\ files' = [files EXCEPT ![p] = [exists |-> TRUE, table |-> TRUE, rows |-> <<v>>,
                                      schema |-> TRUE]]
    /\ dirs' = IF p = "DB_PATH" THEN TRUE ELSE dirs
    /\ ForgetCall
    /\ UNCHANGED <<dpc, dpath, dstep>>
    /\ UNCHANGED dbOthers

\* outside init_db: the file at a path is deleted
remove_file(p) ==
    /\ dpc = "idle"
    /\ files[p].exists
    /\ files' = [files EXCEPT ![p] = NoFileAt]
    /\ ForgetCall
    /\ UNCHANGED <<dirs, dpc, dpath, dstep>>
    /\ UNCHANGED dbOthers

\* init_db(path) is called
init_db(p) ==
    /\ dpc = "idle"
    /\ dpc' = "isfile"
    /\ dpath' = p
    /\ dstep' = 1
    /\ ForgetCall
    /\ UNCHANGED <<files, dirs>>
    /\ UNCHANGED dbOthers

\* os.path.isfile(path) chooses the branch
db_isfile ==
    /\ dpc = "isfile"
    /\ isfile_ret' = IF files[dpath].exists THEN "yes" ELSE "no"
    /\ dpc' = IF files[dpath].exists THEN "existing" ELSE "new"
    /\ UNCHANGED <<files, dirs, dpath, dstep, conn, dcalls, result>>
    /\ UNCHANGED dbOthers

\* the new-database branch with the commit issued before the schema script
NewDbSteps_CommitFirst ==
    <<"create_db_path", "connect", "create_version_table", "insert_version",
      "commit", "executescript">>

\* the calls of the new-database branch, in order
NewDbSteps ==
    <<"create_db_path", "connect", "create_version_table", "insert_version",
      "executescript", "commit">>

\* one call of the new-database branch
db_new_step ==
    /\ dpc = "new"
    /\ dstep <= Len(NewDbSteps)
    /\ LET st == NewDbSteps[dstep] IN
       /\ dcalls' = Append(dcalls, st)
       /\ dirs' = IF st = "create_db_path" THEN TRUE ELSE dirs
       /\ conn' = IF st = "connect" THEN [ClosedConn EXCEPT !.open = TRUE] ELSE conn
       /\ files' = [files EXCEPT ![dpath] =
             CASE st = "connect" -> [@ EXCEPT !.exists = TRUE]
               [] st = "create_version_table" -> [@ EXCEPT !.table = TRUE]
               [] st = "insert_version" ->
                     [@ EXCEPT !.rows = Append(@, CURRENT_DB_VERSION)]
               [] st = "executescript" -> [@ EXCEPT !.schema = TRUE]
               [] OTHER -> @]
    /\ dstep' = dstep + 1
    /\ dpc' = IF dstep = Len(NewDbSteps) THEN "finish" ELSE "new"
    /\ UNCHANGED <<dpath, isfile_ret, result>>
    /\ UNCHANGED dbOthers

\* the existing-file branch opens the file
db_open_existing ==
    /\ dpc = "existing"
    /\ conn' = [ClosedConn EXCEPT !.open = TRUE]
    /\ dcalls' = Append(dcalls, "connect")
    /\ dpc' = "check"
    /\ UNCHANGED <<files, dirs, dpath, dstep, isfile_ret, result>>
    /\ UNCHANGED dbOthers

\* check_db_version(conn): the file's version row is one of the accepted versions
check_db_version(p) ==
    /\ files[p].rows # <<>>
    /\ \E i \in 1..Len(DB_VERSION) : files[p].rows[1] = DB_VERSION[i]

\* the version test applied to every path
VersionMismatch_AnyPath(p) == ~check_db_version(p)

\* a hard mismatch: the canonical path, and its version is not accepted
VersionMismatch(p) == p = "DB_PATH" /\ ~check_db_version(p)

\* the existing-file branch tests the version; a mismatch returns None
db_check_version ==
    /\ dpc = "check"
    /\ IF VersionMismatch(dpath)
       THEN /\ result' = "None"
            /\ dpc' = "idle"
       ELSE /\ dpc' = "finish"
            /\ UNCHANGED result
    /\ UNCHANGED <<files, dirs, dpath, dstep, isfile_ret, conn, dcalls>>
    /\ UNCHANGED dbOthers

\* both branches end alike: isolation_level = None, PRAGMA foreign_keys = on,
\* return the connection
db_finish ==
    /\ dpc = "finish"
    /\ conn' = [conn EXCEPT !.isolation_level = "None", !.foreign_keys = TRUE]
    /\ dcalls' = Append(dcalls, "foreign_keys")
    /\ result' = "conn"
    /\ dpc' = "idle"
    /\ UNCHANGED <<files, dirs, dpath, dstep, isfile_ret>>
    /\ UNCHANGED dbOthers

DBNext ==
    \/ \E p \in Paths, v \in FileVersions : put_file(p, v)
    \/ \E p \in Paths : remove_file(p)
    \/ \E p \in Paths : init_db(p)
    \/ db_isfile
    \/ db_new_step
    \/ db_open_existing
    \/ db_check_version
    \/ db_finish

\* --------------------------------------------------------- database claims
IsPrefix(a, b) == Len(a) <= Len(b) /\ \A i \in 1..Len(a) : a[i] = b[i]

\* C9: on a path without a file, init_db's calls are, in this order: create the
\* directory tree, connect, create the version table, insert the version row, run
\* the schema script, commit, enable foreign keys; it then returns the connection
\* with isolation_level None, and the file holds exactly one version row,
\* CURRENT_DB_VERSION.
C9_NewFileStepsInOrder ==
    isfile_ret = "no" =>
        LET expected == <<"create_db_path", "connect", "create_version_table",
                          "insert_version", "executescript", "commit", "foreign_keys">>
        IN /\ IsPrefix(dcalls, expected)
           /\ result # "pending" =>
                 /\ dcalls = expected
                 /\ result = "conn"
                 /\ conn.open /\ conn.foreign_keys /\ conn.isolation_level = "None"
                 /\ dirs
                 /\ files[dpath].rows = <<CURRENT_DB_VERSION>>
                 /\ files[dpath].schema

\* init_db has returned from the new-database branch
C9_Witness == isfile_ret = "no" /\ result = "conn" /\ dpc = "idle"

\* C10: on a path with a file, init_db never creates directories, never writes
\* the version table, never runs the schema script; it returns None exactly when
\* the path is DB_PATH and the file's version is not accepted, and otherwise the
\* opened connection with foreign keys on and isolation_level None.
C10_ExistingFileOpenedOrRefused ==
    isfile_ret = "yes" =>
        /\ \A i \in 1..Len(dcalls) : dcalls[i] \in {"connect", "foreign_keys"}
        /\ result # "pending" =>
              /\ result = "None" <=> (dpath = "DB_PATH" /\ ~check_db_version(dpath))
              /\ result # "None" =>
                    /\ result = "conn"
                    /\ dcalls = <<"connect", "foreign_keys">>
                    /\ conn.open /\ conn.foreign_keys /\ conn.isolation_level = "None"

\* init_db has refused a stale file at the canonical path
C10_Witness == isfile_ret = "yes" /\ result = "None" /\ dpc = "idle"

\* ======================================================= DATABASE BACKUP
\* utils.py is not part of the sources at hand: backup_database follows the
\* calls tests/test_utils.py expects of it, and the backup contract elsewhere.

\* backup_database calls made in one run of the model
MaxBackups == 2
\* numbered names that can be in the directory before the first call, in any
\* combination
MaxStray == 2
\* attempts of one call: the test counts 3 + 2 * 50 calls into os when every
\* name is taken
MaxTries == 50

\* a file name: what stands before the counter, the counter (0: none), and
\* "<date>-<name>"
FileName(prefix, n) == [prefix |-> prefix, n |-> n]

\* the name tried at attempt k: "<date>-<name>", then "<date>(k)-<date>-<name>"
db_name(k) == IF k = 0 THEN FileName("", 0) ELSE FileName("date", k)

\* "(k)-<date>-<name>"
ParenName(k) == FileName("", k)

\* directories the first call can find: the first j names of the sequence taken,
\* or any few of the early names of either spelling
Prefilled(names) == [n \in names |-> 0]
InitialDirs ==
    {Prefilled({db_name(k) : k \in 0..(j - 1)}) : j \in 0..MaxTries}
    \cup {Prefilled(S) : S \in SUBSET ({db_name(k) : k \in 0..MaxStray}
                                       \cup {ParenName(k) : k \in 1..MaxStray})}

BackupInit ==
    /\ bisdir \in BOOLEAN
    /\ bdir \in InitialDirs
    /\ bisdir \/ bdir = Prefilled({})
    /\ bdir0 = bdir
    /\ bpc = "idle"
    /\ current_try = 0
    /\ copied = {}
    /\ bresult = "pending"
    /\ nBackups = 0

\* backup_database(db_path) is called; the directory is made if absent
backup_database ==
    /\ bpc = "idle"
    /\ nBackups < MaxBackups
    /\ nBackups' = nBackups + 1
    /\ bisdir' = TRUE
    /\ bdir0' = bdir
    /\ current_try' = 0
    /\ copied' = {}
    /\ bresult' = "pending"
    /\ bpc' = "loop"
    /\ UNCHANGED bdir
    /\ UNCHANGED bkOthers

\* the loop goes on for ever
LoopContinues_Unbounded(t) == TRUE

\* while current_try < 50
LoopContinues(t) == t < MaxTries

\* every name is free
DstTaken_Never(d, dst) == FALSE

\* os.path.exists(dst_path)
DstTaken(d, dst) == dst \in DOMAIN d

\* one turn of the loop: the name of this attempt is tried; a taken name costs an
\* attempt, a free one receives the copy and ends the loop
backup_try ==
    /\ bpc = "loop"
    /\ LoopContinues(current_try)
    /\ IF DstTaken(bdir, db_name(current_try))
       THEN /\ current_try' = current_try + 1
            /\ UNCHANGED <<bdir, copied, bpc>>
       ELSE /\ bdir' = DictSet(bdir, db_name(current_try), nBackups)
            /\ copied' = copied \cup {db_name(current_try)}
            /\ bpc' = "return"
            /\ UNCHANGED current_try
    /\ UNCHANGED <<bisdir, bdir0, bresult, nBackups>>
    /\ UNCHANGED bkOthers

\* the loop ran out of attempts
backup_give_up ==
    /\ bpc = "loop"
    /\ ~LoopContinues(current_try)
    /\ bpc' = "return"
    /\ UNCHANGED <<bisdir, bdir, bdir0, current_try, copied, bresult, nBackups>>
    /\ UNCHANGED bkOthers

\* return True
backup_return ==
    /\ bpc = "return"
    /\ bresult' = "True"
    /\ bpc' = "idle"
    /\ UNCHANGED <<bisdir, bdir, bdir0, current_try, copied, nBackups>>
    /\ UNCHANGED bkOthers

BackupNext ==
    \/ backup_database
    \/ backup_try
    \/ backup_give_up
    \/ backup_return

\* ----------------------------------------------------------- backup claims
\* files that were in the directory when the call began are as they were
OldFilesUnchanged == \A n \in DOMAIN bdir0 : n \in DOMAIN bdir /\ bdir[n] = bdir0[n]

\* the least k with name(k) not in the directory the call found
FirstFree(name(_), limit) ==
    IF \E k \in 0..limit : name(k) \notin DOMAIN bdir0
    THEN CHOOSE k \in 0..limit :
            /\ name(k) \notin DOMAIN bdir0
            /\ \A j \in 0..(k - 1) : name(j) \in DOMAIN bdir0
    ELSE limit + 1

\* C11 as stated: a finished call left every old file unchanged and copied the
\* database to "<date>-<name>" if that was unused, otherwise to the first unused
\* name of "(1)-<date>-<name>", "(2)-<date>-<name>", ...
C11_CopyAtFirstUnusedParenName ==
    bresult = "True" =>
        /\ OldFilesUnchanged
        /\ copied = {ParenName(FirstFree(ParenName, MaxTries + MaxStray))}

\* C11 amended: a finished call left every old file unchanged; the names tried
\* are "<date>-<name>", then "<date>(k)-<date>-<name>" for k = 1..49; the
\* database was copied to the first unused of these and nowhere else, and
\* nowhere at all if all fifty were taken.
C11_CopyAtFirstUnusedDatedName ==
    /\ OldFilesUnchanged
    /\ bresult = "True" =>
          copied = IF FirstFree(db_name, MaxTries - 1) < MaxTries
                   THEN {db_name(FirstFree(db_name, MaxTries - 1))}
                   ELSE {}

\* a call returned after finding the dated name and the first numbered name taken
C11_Witness ==
    /\ bresult = "True"
    /\ {db_name(0), db_name(1)} \subseteq DOMAIN bdir0
    /\ copied = {db_name(2)}

\* C12: the loop counter never passes the fifty attempts; a call that found
\* every name taken has returned True all the same, having copied nothing; and a
\* call that has gone through the loop returns True.
C12_BackupBoundedAndTruthy ==
    /\ current_try <= MaxTries
    /\ bpc = "return" /\ FirstFree(db_name, MaxTries - 1) = MaxTries =>
          copied = {} /\ bdir = bdir0 /\ current_try = MaxTries
    /\ bpc = "idle" /\ nBackups > 0 => bresult = "True"

\* a call that found every name taken has returned
C12_Witness ==
    /\ bresult = "True"
    /\ FirstFree(db_name, MaxTries - 1) = MaxTries
    /\ copied = {}

\* ================================================== METADATA APPLICATION
\* metadata records at hand
NumRecords == 2

Namespaces == {"Artist", "Female"}
Tags == {"a", "b"}
Records == 1..NumRecords
NoList == 0

\* objects: dict 1 and lists 1, 2 are the gallery's own; record r came out of
\* parse_metadata with dict r + 1 and one list per namespace it has
GalleryDict == 1
RecordDict(r) == r + 1
OwnList(d, ns) == IF ns = "Artist" THEN 2 * d - 1 ELSE 2 * d
DictIds == 1..(NumRecords + 1)
ListIds == 1..(2 * (NumRecords + 1))

\* tag lists a stored gallery has: no tag twice
GalleryLists == {<<"a">>, <<"a", "b">>}
\* tag lists parse_metadata can build: it appends every tag it is given
RecordLists == {<<"a">>, <<"b">>, <<"a", "b">>, <<"a", "a">>}

\* the tags a dict object stands for
TagsOf(dicts, lists, d) ==
    [ns \in {n \in Namespaces : dicts[d][n] # NoList} |-> lists[dicts[d][ns]]]

\* a gallery with some tags, and freshly parsed records
TagInit ==
    /\ tagdicts \in [DictIds -> [Namespaces -> {NoList} \cup ListIds]]
    /\ \A d \in DictIds, ns \in Namespaces : tagdicts[d][ns] \in {NoList, OwnList(d, ns)}
    /\ \E ns \in Namespaces : tagdicts[GalleryDict][ns] # NoList
    /\ \A r \in Records : \E ns \in Namespaces : tagdicts[RecordDict(r)][ns] # NoList
    /\ taglists \in [ListIds -> GalleryLists \cup RecordLists \cup {<<>>}]
    /\ \A d \in DictIds, ns \in Namespaces :
          taglists[OwnList(d, ns)] \in
              IF tagdicts[d][ns] = NoList THEN {<<>>}
              ELSE IF d = GalleryDict THEN GalleryLists ELSE RecordLists
    /\ gtags = GalleryDict
    /\ lastApply = [record |-> 0, append |-> FALSE, data |-> <<>>, before |-> <<>>]

\* for tag in data['tags'][ns]: if not tag in g.tags[ns]: g.tags[ns].append(tag)
\* (lines 1195-1197) with the record's list src and the gallery's list dst
RECURSIVE AppendMissing(_, _)
AppendMissing(dst, src) ==
    IF src = <<>> THEN dst
    ELSE AppendMissing(IF \E i \in 1..Len(dst) : dst[i] = Head(src) THEN dst
                       ELSE Append(dst, Head(src)),
                       Tail(src))

\* the record's list object is copied
NewNamespaceList_Copied(d, ns) == OwnList(GalleryDict, ns)

\* g.tags[ns] = data['tags'][ns] (line 1199): the record's list object itself
NewNamespaceList(d, ns) == tagdicts[d][ns]

\* the else branch of line 1192 for one namespace of the record (dict d)
MergeNamespace(dicts, lists, d, ns) ==
    IF dicts[d][ns] = NoList THEN [dicts |-> dicts, lists |-> lists]
    ELSE IF dicts[gtags][ns] # NoList
    THEN [dicts |-> dicts,
          lists |-> IF dicts[gtags][ns] = dicts[d][ns] THEN lists
                    ELSE [lists EXCEPT ![dicts[gtags][ns]] =
                             AppendMissing(@, lists[dicts[d][ns]])]]
    ELSE [dicts |-> [dicts EXCEPT ![gtags][ns] = NewNamespaceList(d, ns)],
          lists |-> IF NewNamespaceList(d, ns) = dicts[d][ns] THEN lists
                    ELSE [lists EXCEPT ![NewNamespaceList(d, ns)] = lists[dicts[d][ns]]]]

\* EHen.apply_metadata(g, data, append), the tags (lines 1170, 1190-1199); the
\* same statements are in Fetch.fetch_metadata (fetch.py:187, 199-208)
apply_metadata(r, append) ==
    LET d == RecordDict(r)
        afterArtist == MergeNamespace(tagdicts, taglists, d, "Artist")
        afterBoth == MergeNamespace(afterArtist.dicts, afterArtist.lists, d, "Female")
    IN /\ lastApply' = [record |-> r, append |-> append,
                        data |-> TagsOf(tagdicts, taglists, d),
                        before |-> TagsOf(tagdicts, taglists, gtags)]
       /\ IF ~append \/ DOMAIN TagsOf(tagdicts, taglists, gtags) = {}
          THEN /\ gtags' = d                                  \* lines 1170, 1191
               /\ UNCHANGED <<tagdicts, taglists>>
          ELSE /\ tagdicts' = afterBoth.dicts
               /\ taglists' = afterBoth.lists
               /\ UNCHANGED gtags
       /\ UNCHANGED tagOthers

TagNext == \E r \in Records, append \in BOOLEAN : apply_metadata(r, append)

\* ------------------------------------------------------------- tag claims
Count(seq, x) == Cardinality({i \in 1..Len(seq) : seq[i] = x})

\* C14: a merge-mode application to a gallery with tags keeps every namespace,
\* keeps each old list as the beginning of the new one, and leaves each tag of
\* the record exactly once in its namespace; a replace-mode application leaves
\* the gallery with exactly the record's tags.
C14_MergeOnlyAddsWithoutDuplicates ==
    lastApply.record # 0 =>
        LET tagsNow == TagsOf(tagdicts, taglists, gtags) IN
        IF lastApply.append
        THEN /\ \A ns \in DOMAIN lastApply.before :
                   /\ ns \in DOMAIN tagsNow
                   /\ IsPrefix(lastApply.before[ns], tagsNow[ns])
             /\ \A ns \in DOMAIN lastApply.data :
                   /\ ns \in DOMAIN tagsNow
                   /\ \A i \in 1..Len(lastApply.data[ns]) :
                         Count(tagsNow[ns], lastApply.data[ns][i]) = 1
        ELSE tagsNow = lastApply.data

\* ================================================= METADATA CLIENT QUEUE
\* URLs queued in one run of the model
MaxQueued == 27

\* the clients: EHen keeps CommenHen._QUEUE_LIMIT (line 963), ChaikaHen sets
\* its own in __init__ (line 1534); both append to CommenHen.QUEUE
QueueClients == {"EHen", "ChaikaHen"}
QUEUE_LIMIT(c) == IF c = "ChaikaHen" THEN 1 ELSE 25

\* what get_metadata does with the list it is given: it returns the pair
\* (api data, gallery ids), returns None, returns the string 'error'
\* (line 1308), or raises MetadataFetchFail (line 1304)
MetadataOutcomes == {"data", "None", "error", "raises"}

NoCall == [client |-> "", found |-> <<>>, invoked |-> FALSE, urls |-> <<>>,
           flushed |-> FALSE, ret |-> ""]

QueueInit ==
    /\ QUEUE = <<>>
    /\ arrivals = 0
    /\ qcall = NoCall

\* the whole queue is handed over
Batch_Whole(queue, limit) == queue

\* the list process_queue hands to get_metadata (lines 1014-1017)
Batch(queue, limit) ==
    IF Len(queue) >= limit THEN SubSeq(queue, 1, limit) ELSE queue

\* process_queue() (lines 1003-1023): None on an empty queue; otherwise
\* get_metadata on the batch, the queue cleared in the finally clause; a None
\* from get_metadata fails to unpack with TypeError, which is caught; 'error'
\* fails to unpack with ValueError, which is not
process_queue(c, queue, answer) ==
    IF Len(queue) < 1
    THEN [invoked |-> FALSE, urls |-> <<>>, flushed |-> FALSE, queue |-> queue,
          ret |-> "None"]
    ELSE [invoked |-> TRUE, urls |-> Batch(queue, QUEUE_LIMIT(c)), flushed |-> TRUE,
          queue |-> <<>>,
          ret |-> CASE answer = "data" -> "data"
                    [] answer = "None" -> "None"
                    [] answer = "error" -> "ValueError"
                    [] OTHER -> "MetadataFetchFail"]

\* add_to_queue(url, proc, parse) on client c (lines 981-1001); hasUrl is
\* whether url is non-empty; parse_metadata(*None) raises TypeError, which
\* the except clause turns into None
add_to_queue_url(c, hasUrl, proc, parse, answer) ==
    LET appended == IF hasUrl THEN Append(QUEUE, arrivals + 1) ELSE QUEUE
        p == process_queue(c, appended, answer)
    IN /\ hasUrl => arrivals < MaxQueued
       /\ arrivals' = IF hasUrl THEN arrivals + 1 ELSE arrivals
       /\ IF proc \/ Len(appended) >= QUEUE_LIMIT(c)
          THEN /\ QUEUE' = p.queue
               /\ qcall' = [client |-> c, found |-> appended, invoked |-> p.invoked,
                            urls |-> p.urls, flushed |-> p.flushed,
                            ret |-> IF p.ret = "data" /\ parse THEN "parsed" ELSE p.ret]
          ELSE /\ QUEUE' = appended
               /\ qcall' = [client |-> c, found |-> appended, invoked |-> FALSE,
                            urls |-> <<>>, flushed |-> FALSE, ret |-> "1"]
       /\ UNCHANGED queueOthers

QueueNext ==
    \E c \in QueueClients, hasUrl \in BOOLEAN, proc \in BOOLEAN, parse \in BOOLEAN,
       answer \in MetadataOutcomes :
        add_to_queue_url(c, hasUrl, proc, parse, answer)

\* ----------------------------------------------------------- queue claims
\* C15: get_metadata is never given more URLs than the client's batch ceiling
\* (25 at most), the URLs it is given are the earliest queued ones in arrival
\* order, and the shared queue is empty after every flush, whatever
\* get_metadata did.
C15_BatchIsEarliestAndQueueFlushed ==
    /\ qcall.invoked =>
          /\ Len(qcall.urls) <= QUEUE_LIMIT(qcall.client)
          /\ Len(qcall.urls) <= 25
          /\ IsPrefix(qcall.urls, qcall.found)
          /\ \A i \in 1..Len(qcall.urls) : i > 1 => qcall.urls[i - 1] < qcall.urls[i]
          /\ qcall.flushed
    /\ qcall.flushed => QUEUE = <<>>

\* C26: an add_to_queue call that adds a URL through the ChaikaHen client hands
\* exactly that URL, and no other, to get_metadata within the same call.
C26_HashIndexClientFetchesItsOwnUrl ==
    [][(qcall'.client = "ChaikaHen" /\ arrivals' = arrivals + 1) =>
          /\ qcall'.invoked
          /\ qcall'.urls = <<arrivals'>>]_vars

\* a flush after get_metadata raised, with queued URLs beyond the ceiling lost
C15_Witness ==
    /\ qcall.invoked /\ qcall.flushed
    /\ qcall.ret = "MetadataFetchFail"
    /\ Len(qcall.found) > Len(qcall.urls)
    /\ QUEUE = <<>>

\* ===================================================== SITE ORCHESTRATORS
\* from_gallery_url calls in one run of the model
MaxCalls == 3

Managers == {"ChaikaManager", "HenManager", "ExHenManager", "AsmManager"}
\* what a page request or a parsing step of a call can do
StepOutcomes == {"ok", "nothing", "raises"}
UrlKinds == {"gallery", "archive", "other"}
DownloadTypes == {"DOWNLOAD_TYPE_ARCHIVE", "DOWNLOAD_TYPE_TORRENT"}

\* the outcome of a call: what it put on the download queue, in order, whether
\* h_item.download_url was set, and what the caller gets
CallResult(puts, resolved, ret) == [puts |-> puts, resolved |-> resolved, ret |-> ret]

\* HenItem.fetch_thumb (lines 598-604): the thumbnail goes on the download queue
fetch_thumb(puts) == Append(puts, "thumb")

\* ChaikaManager.from_gallery_url (lines 706-730). _gallery_page sets
\* download_url and returns the archive id only when the gallery lists an
\* archive (lines 757-759); its result is unused on the /archive path.
Chaika_from_gallery_url(kind, gallery_page, archive_page) ==
    CASE kind = "gallery" ->
            IF gallery_page = "raises" THEN CallResult(<<>>, FALSE, "raises")
            ELSE IF gallery_page = "nothing" THEN CallResult(<<>>, FALSE, "None")
            ELSE IF archive_page = "raises" THEN CallResult(<<>>, TRUE, "raises")
            ELSE CallResult(<<"item">>, TRUE, "h_item")
      [] kind = "archive" ->
            IF archive_page = "raises" THEN CallResult(<<>>, FALSE, "raises")
            ELSE IF archive_page = "nothing" THEN CallResult(<<>>, FALSE, "None")
            ELSE IF gallery_page = "raises" THEN CallResult(<<>>, FALSE, "raises")
            ELSE CallResult(<<"item">>, gallery_page = "ok", "h_item")
      [] OTHER -> CallResult(<<>>, FALSE, "None")

\* HenManager.from_gallery_url (lines 850-946), ExHenManager inherits it.
\* before: the URL, login and API steps up to line 875 (False on an empty URL,
\* NeedLogin, WrongURL or a failed unpack otherwise); the torrent branch
\* fetches the thumbnail first (line 934)
Hen_from_gallery_url(download_type, before, page, torrents_found) ==
    IF before = "nothing" THEN CallResult(<<>>, FALSE, "False")
    ELSE IF before = "raises" THEN CallResult(<<>>, FALSE, "raises")
    ELSE IF download_type = "DOWNLOAD_TYPE_ARCHIVE"
    THEN CASE page = "ok" -> CallResult(Append(fetch_thumb(<<>>), "item"), TRUE, "h_item")
           [] page = "nothing" -> CallResult(<<>>, FALSE, "False")
           [] OTHER -> CallResult(<<>>, FALSE, "raises")
    ELSE IF torrents_found = 0
         THEN CallResult(fetch_thumb(<<>>), FALSE, "h_item")
         ELSE CASE page = "ok" ->
                     CallResult(Append(fetch_thumb(<<>>), "item"), TRUE, "h_item")
                [] page = "nothing" -> CallResult(fetch_thumb(<<>>), FALSE, "False")
                [] OTHER -> CallResult(fetch_thumb(<<>>), FALSE, "raises")

\* AsmManager.from_gallery_url (asm_manager.py lines 198-237). before: the
\* metadata and cover steps up to line 214; page: the title, _get_dl_urls and
\* the metadata steps after fetch_thumb, which index and look up what the page
\* may lack
Asm_from_gallery_url(before, page) ==
    IF before # "ok" THEN CallResult(<<>>, FALSE, "raises")
    ELSE IF page # "ok" THEN CallResult(fetch_thumb(<<>>), FALSE, "raises")
    ELSE CallResult(Append(fetch_thumb(<<>>), "item"), TRUE, "h_item")

NoManagerCall == [manager |-> "", puts |-> <<>>, resolved |-> FALSE, ret |-> ""]

ManagerInit ==
    /\ dl_queue = <<>>
    /\ ncalls = 0
    /\ mcall = NoManagerCall

from_gallery_url(m, kind, download_type, before, page, archive_page, torrents_found) ==
    LET res == CASE m = "ChaikaManager" -> Chaika_from_gallery_url(kind, page, archive_page)
                 [] m = "AsmManager" -> Asm_from_gallery_url(before, page)
                 [] OTHER -> Hen_from_gallery_url(download_type, before, page, torrents_found)
    IN /\ ncalls < MaxCalls
       /\ ncalls' = ncalls + 1
       /\ dl_queue' = dl_queue \o [i \in 1..Len(res.puts) |->
                                      [what |-> res.puts[i], call |-> ncalls + 1]]
       /\ mcall' = [manager |-> m, puts |-> res.puts, resolved |-> res.resolved,
                    ret |-> res.ret]
       /\ UNCHANGED mgrOthers

ManagerNext ==
    \E m \in Managers, kind \in UrlKinds, download_type \in DownloadTypes,
       before \in StepOutcomes, page \in StepOutcomes, archive_page \in StepOutcomes,
       torrents_found \in 0..1 :
        from_gallery_url(m, kind, download_type, before, page, archive_page, torrents_found)

\* ------------------------------------------------------ orchestrator claims
\* C16: a from_gallery_url call that returns a falsy or absent result, or
\* raises, has put nothing on the download queue (no item, no thumbnail); and a
\* call that put the gallery item on the queue had resolved its download URL
\* and returns that item.
C16_NeverPartiallyEnqueues ==
    mcall.manager # "" =>
        /\ mcall.ret \in {"False", "None", "raises"} => mcall.puts = <<>>
        /\ (\E i \in 1..Len(mcall.puts) : mcall.puts[i] = "item") =>
              mcall.resolved /\ mcall.ret = "h_item"

\* ============================================================ LOCAL SEARCH
\* entries the source of a local search holds at most
MaxEntries == 3

\* what an entry of the source is: a gallery folder, an archive file, a file
\* that is neither (skipped, lines 119-123), a gallery the database already
\* has (line 88), or an entry whose scan raises (lines 93-110, e.g. max() of
\* no file times)
EntryKinds == {"folder", "archive", "other", "exists", "raises"}
Sources == UNION {[1..n -> EntryKinds] : n \in 0..MaxEntries}

\* what FINISHED was emitted with: False, or the list self.data
EmitFalse == [value |-> "False", data |-> <<>>]
EmitData(d) == [value |-> "list", data |-> d]

\* a Fetch object with its series_path set (lines 55-56), before local() runs
LocalInit ==
    /\ series \in Sources
    /\ lpc = "idle"
    /\ gallery_l = <<>>
    /\ data = <<>>
    /\ data_count = 0
    /\ lprogress = 0
    /\ local_finished = <<>>

\* lines 71-79 and 146-149: the listing is read; an empty one emits
\* FINISHED(False) and control goes on to line 150
local_listing ==
    /\ lpc = "idle"
    /\ gallery_l' = series
    /\ IF Len(series) # 0
       THEN /\ data_count' = Len(series)
            /\ lpc' = "loop"
            /\ UNCHANGED local_finished
       ELSE /\ local_finished' = Append(local_finished, EmitFalse)
            /\ lpc' = "report"
            /\ UNCHANGED data_count
    /\ UNCHANGED <<series, data, lprogress>>
    /\ UNCHANGED localOthers

\* lines 82-141: one turn of the loop over gallery_l
local_entry ==
    /\ lpc = "loop"
    /\ gallery_l # <<>>
    /\ LET e == Head(gallery_l) IN
       IF e = "raises"
       THEN /\ local_finished' = Append(local_finished, EmitFalse)   \* lines 142-144
            /\ lpc' = "report"
            /\ UNCHANGED <<gallery_l, data, lprogress>>
       ELSE /\ gallery_l' = Tail(gallery_l)
            /\ data' = IF e \in {"folder", "archive"} THEN Append(data, e) ELSE data
            /\ lprogress' = lprogress + 1
            /\ UNCHANGED <<local_finished, lpc>>
    /\ UNCHANGED <<series, data_count>>
    /\ UNCHANGED localOthers

\* the loop is exhausted
local_loop_end ==
    /\ lpc = "loop"
    /\ gallery_l = <<>>
    /\ lpc' = "report"
    /\ UNCHANGED <<series, gallery_l, data, data_count, lprogress, local_finished>>
    /\ UNCHANGED localOthers

\* lines 150-153: reached on every path; self.FINISHED.emit(self.data)
local_report ==
    /\ lpc = "report"
    /\ local_finished' = Append(local_finished, EmitData(data))
    /\ lpc' = "done"
    /\ UNCHANGED <<series, gallery_l, data, data_count, lprogress>>
    /\ UNCHANGED localOthers

LocalNext ==
    \/ local_listing
    \/ local_entry
    \/ local_loop_end
    \/ local_report

\* ------------------------------------------------------ local search claims
\* C21: for a source with no entries, FINISHED(False) is the only FINISHED
\* emission of the run; no gallery list, not even an empty one, follows it.
C21_EmptySourceOnlyFails ==
    series = <<>> =>
        /\ Len(local_finished) <= 1
        /\ \A k \in 1..Len(local_finished) : local_finished[k] = EmitFalse
        /\ lpc = "done" => local_finished = <<EmitFalse>>

\* ========================================================= GALLERY DIALOG
DialogModes == {"new", "edit"}
NoPath == "No path specified"

\* the dialog as __init__ leaves it (lines 60-99): a new-gallery dialog with
\* empty fields, or an edit dialog filled from its gallery; the fetch thread
\* is created and not started
DialogInit ==
    /\ gmode \in DialogModes
    /\ title_text = IF gmode = "new" THEN "" ELSE "title"
    /\ path_text = IF gmode = "new" THEN "" ELSE "path"
    /\ highlighted = {}
    /\ dialog = "open"
    /\ library = 0
    /\ replaced = FALSE
    /\ thread_running = FALSE
    /\ fetch_state = "none"
    /\ close_connected = FALSE
    /\ pgr_widget = "hidden"
    /\ closing = FALSE
    /\ gpress = [button |-> "", valid |-> TRUE, library |-> 0]

\* GalleryDialog.check (lines 408-422): the result and what it does to the fields
check ==
    IF title_text = ""
    THEN [ok |-> FALSE, path |-> path_text, marks |-> highlighted \cup {"title"}]
    ELSE IF path_text = "" \/ path_text = NoPath
    THEN [ok |-> FALSE, path |-> NoPath, marks |-> highlighted \cup {"path"}]
    ELSE [ok |-> TRUE, path |-> path_text, marks |-> highlighted]

\* GalleryDialog.delayed_close (lines 583-588): the window after the call
DialogAfterClose(running) == IF running THEN "hidden" ELSE "closed"

\* the user types in the title field
set_title(txt) ==
    /\ dialog = "open"
    /\ title_text # txt
    /\ title_text' = txt
    /\ gpress' = [button |-> "type", valid |-> TRUE, library |-> library]
    /\ UNCHANGED <<gmode, path_text, highlighted, dialog, library, replaced,
                   thread_running, fetch_state, close_connected, closing>>
    /\ UNCHANGED pgr_widget
    /\ UNCHANGED dialogOthers

\* choose_dir (lines 355-382) with a source chosen
choose_dir ==
    /\ dialog = "open"
    /\ gmode = "new"
    /\ title_text' = "title"
    /\ path_text' = "path"
    /\ gpress' = [button |-> "choose", valid |-> TRUE, library |-> library]
    /\ UNCHANGED <<gmode, highlighted, dialog, library, replaced, thread_running,
                   fetch_state, close_connected, closing>>
    /\ UNCHANGED pgr_widget
    /\ UNCHANGED dialogOthers

\* web_metadata (lines 436-479): with a path and valid fields the fetch thread
\* is started; QThread.start() on a running thread does nothing
web_metadata ==
    /\ dialog = "open"
    /\ path_text # ""
    /\ path_text' = check.path
    /\ highlighted' = check.marks
    /\ IF check.ok /\ ~thread_running
       THEN thread_running' = TRUE /\ fetch_state' = "running"
       ELSE UNCHANGED <<thread_running, fetch_state>>
    /\ pgr_widget' = IF check.ok THEN "shown" ELSE "danger"     \* status(False)
    /\ gpress' = [button |-> "fetch", valid |-> check.ok, library |-> library]
    /\ UNCHANGED <<gmode, title_text, dialog, library, replaced, close_connected,
                   closing>>
    /\ UNCHANGED dialogOthers

\* auto_web_metadata emits FINISHED(stat), handled by status (lines 442-456),
\* and returns, or raises, in the fetch thread; nothing calls quit() on the
\* thread, whose event loop goes on: isRunning() stays true and finished is
\* not emitted
fetch_returns ==
    /\ fetch_state = "running"
    /\ fetch_state' = "returned"
    /\ \E stat \in {"True", "False", "none"} :
          pgr_widget' = CASE stat = "True" -> "hidden"
                          [] stat = "False" -> "danger"
                          [] OTHER -> pgr_widget
    /\ UNCHANGED <<gmode, title_text, path_text, highlighted, dialog, library,
                   replaced, thread_running, close_connected, closing, gpress>>
    /\ UNCHANGED dialogOthers

\* QTimer.singleShot(3000, do_hide) fires (lines 443-448, 456)
do_hide ==
    /\ pgr_widget = "danger"
    /\ pgr_widget' = "hidden"
    /\ UNCHANGED <<gmode, title_text, path_text, highlighted, dialog, library,
                   replaced, thread_running, fetch_state, close_connected, closing,
                   gpress>>
    /\ UNCHANGED dialogOthers

\* Done in new-gallery mode: accept (lines 590-592), make_gallery with new=True
\* (lines 495-556) and then delayed_close
accept ==
    /\ dialog = "open"
    /\ gmode = "new"
    /\ path_text' = check.path
    /\ highlighted' = check.marks
    /\ library' = IF check.ok THEN library + 1 ELSE library
    /\ dialog' = DialogAfterClose(thread_running)
    /\ close_connected' = (close_connected \/ thread_running)
    /\ closing' = TRUE
    /\ gpress' = [button |-> "Done", valid |-> check.ok, library |-> library]
    /\ UNCHANGED <<gmode, title_text, replaced, thread_running, fetch_state>>
    /\ UNCHANGED pgr_widget
    /\ UNCHANGED dialogOthers

\* Done in edit mode: accept_edit (lines 594-599)
accept_edit ==
    /\ dialog = "open"
    /\ gmode = "edit"
    /\ path_text' = check.path
    /\ highlighted' = check.marks
    /\ replaced' = (replaced \/ check.ok)
    /\ dialog' = DialogAfterClose(thread_running)
    /\ close_connected' = (close_connected \/ thread_running)
    /\ closing' = TRUE
    /\ gpress' = [button |-> "Done edit", valid |-> check.ok, library |-> library]
    /\ UNCHANGED <<gmode, title_text, library, thread_running, fetch_state>>
    /\ UNCHANGED pgr_widget
    /\ UNCHANGED dialogOthers

\* Cancel in new-gallery mode: reject (lines 423-434); discard is the answer to
\* the message box shown when the fields are valid
reject(discard) ==
    /\ dialog = "open"
    /\ gmode = "new"
    /\ path_text' = check.path
    /\ highlighted' = check.marks
    /\ IF check.ok /\ ~discard
       THEN UNCHANGED <<dialog, closing>>
       ELSE dialog' = "closed" /\ closing' = TRUE
    /\ gpress' = [button |-> "Cancel", valid |-> check.ok, library |-> library]
    /\ UNCHANGED <<gmode, title_text, library, replaced, thread_running, fetch_state,
                   close_connected>>
    /\ UNCHANGED pgr_widget
    /\ UNCHANGED dialogOthers

\* Cancel in edit mode: reject_edit (lines 601-602)
reject_edit ==
    /\ dialog = "open"
    /\ gmode = "edit"
    /\ dialog' = DialogAfterClose(thread_running)
    /\ close_connected' = (close_connected \/ thread_running)
    /\ closing' = TRUE
    /\ gpress' = [button |-> "Cancel edit", valid |-> TRUE, library |-> library]
    /\ UNCHANGED <<gmode, title_text, path_text, highlighted, library, replaced,
                   thread_running, fetch_state>>
    /\ UNCHANGED pgr_widget
    /\ UNCHANGED dialogOthers

DialogNext ==
    \/ \E txt \in {"", "title"} : set_title(txt)
    \/ choose_dir
    \/ web_metadata
    \/ fetch_returns
    \/ do_hide
    \/ accept
    \/ accept_edit
    \/ \E discard \in BOOLEAN : reject(discard)
    \/ reject_edit

\* ----------------------------------------------------------- dialog claims
\* C22: in new-gallery mode a Done pressed while validation fails adds no
\* gallery and leaves the dialog open with the offending field highlighted;
\* the dialog is no longer open after Done only when validation passed.
C22_InvalidDoneKeepsDialogOpen ==
    gpress.button = "Done" =>
        /\ ~gpress.valid =>
              /\ library = gpress.library
              /\ highlighted # {}
              /\ dialog = "open"
        /\ dialog # "open" => gpress.valid

\* C27: once the dialog was accepted or cancelled it is hidden or closed while
\* the fetch runs, and closed when no fetch is running (none was started, or
\* it has completed).
C27_ClosedOnceFetchIsOver ==
    closing =>
        /\ dialog # "open"
        /\ fetch_state # "running" => dialog = "closed"

\* ========================================================== SPECIFICATIONS
\* a subsystem nobody uses: its state stays what its construction made it
FetchQuiet == FetchInit /\ use_ehen_api = FALSE /\ first_hit = FALSE
PlugQuiet == PlugInit
DBQuiet == DBInit
BackupQuiet == BackupInit /\ bisdir /\ bdir = Prefilled({})
QueueQuiet == QueueInit
ManagerQuiet == ManagerInit
DialogQuiet == DialogInit /\ gmode = "new"
LocalQuiet == LocalInit /\ series = <<>>
TagQuiet ==
    /\ tagdicts = [d \in DictIds |-> [ns \in Namespaces |-> OwnList(d, ns)]]
    /\ taglists = [l \in ListIds |-> <<"a">>]
    /\ gtags = GalleryDict
    /\ lastApply = [record |-> 0, append |-> FALSE, data |-> <<>>, before |-> <<>>]
DLQuiet == DLInit /\ isMulti = [i \in Items |-> FALSE]
LockQuiet == LockInit /\ henClass = [c \in Clients |-> "EHen"]

\* the downloader runs; the other subsystems are idle
InitDL == DLInit /\ LockQuiet /\ FetchQuiet /\ PlugQuiet /\ DBQuiet /\ BackupQuiet /\ TagQuiet /\ QueueQuiet /\ ManagerQuiet /\ LocalQuiet /\ DialogQuiet
SpecDL == InitDL /\ [][DLNext]_vars

\* the metadata clients run
InitLock == LockInit /\ DLQuiet /\ FetchQuiet /\ PlugQuiet /\ DBQuiet /\ BackupQuiet /\ TagQuiet /\ QueueQuiet /\ ManagerQuiet /\ LocalQuiet /\ DialogQuiet
SpecLock == InitLock /\ [][LockNext]_vars

\* the auto metadata fetcher runs
InitFetch == FetchInit /\ DLQuiet /\ LockQuiet /\ PlugQuiet /\ DBQuiet /\ BackupQuiet /\ TagQuiet /\ QueueQuiet /\ ManagerQuiet /\ LocalQuiet /\ DialogQuiet
SpecFetch == InitFetch /\ [][FetchNext]_vars

\* the plugin framework runs
InitPlugins == PlugInit /\ DLQuiet /\ LockQuiet /\ FetchQuiet /\ DBQuiet /\ BackupQuiet /\ TagQuiet /\ QueueQuiet /\ ManagerQuiet /\ LocalQuiet /\ DialogQuiet
SpecPlugins == InitPlugins /\ [][PlugNext]_vars

\* plugin modules are imported: class statements run, nothing else yet
SpecPluginClasses == InitPlugins /\ [][ClassNext]_vars

\* the database bootstrap runs
InitDB == DBInit /\ DLQuiet /\ LockQuiet /\ FetchQuiet /\ PlugQuiet /\ BackupQuiet /\ TagQuiet /\ QueueQuiet /\ ManagerQuiet /\ LocalQuiet /\ DialogQuiet
SpecDB == InitDB /\ [][DBNext]_vars

\* the database backup runs
InitBackup == BackupInit /\ DLQuiet /\ LockQuiet /\ FetchQuiet /\ PlugQuiet /\ DBQuiet /\ TagQuiet /\ QueueQuiet /\ ManagerQuiet /\ LocalQuiet /\ DialogQuiet
SpecBackup == InitBackup /\ [][BackupNext]_vars

\* metadata records are applied to a gallery
InitTags == TagInit /\ DLQuiet /\ LockQuiet /\ FetchQuiet /\ PlugQuiet /\ DBQuiet /\ BackupQuiet /\ QueueQuiet /\ ManagerQuiet /\ LocalQuiet /\ DialogQuiet
SpecTags == InitTags /\ [][TagNext]_vars

\* clients queue URLs and flush the queue
InitQueue == QueueInit /\ DLQuiet /\ LockQuiet /\ FetchQuiet /\ PlugQuiet /\ DBQuiet /\ BackupQuiet /\ TagQuiet /\ ManagerQuiet /\ LocalQuiet /\ DialogQuiet
SpecQueue == InitQueue /\ [][QueueNext]_vars

\* site orchestrators turn gallery URLs into queued downloads
InitManagers == ManagerInit /\ DLQuiet /\ LockQuiet /\ FetchQuiet /\ PlugQuiet /\ DBQuiet /\ BackupQuiet /\ TagQuiet /\ QueueQuiet /\ LocalQuiet /\ DialogQuiet
SpecManagers == InitManagers /\ [][ManagerNext]_vars

\* a local search runs
InitLocal == LocalInit /\ DLQuiet /\ LockQuiet /\ FetchQuiet /\ PlugQuiet /\ DBQuiet /\ BackupQuiet /\ TagQuiet /\ QueueQuiet /\ ManagerQuiet /\ DialogQuiet
SpecLocal == InitLocal /\ [][LocalNext]_vars

\* a gallery dialog is used
InitDialog == DialogInit /\ DLQuiet /\ LockQuiet /\ FetchQuiet /\ PlugQuiet /\ DBQuiet /\ BackupQuiet /\ TagQuiet /\ QueueQuiet /\ ManagerQuiet /\ LocalQuiet
SpecDialog == InitDialog /\ [][DialogNext]_vars

=============================================================================
